---------------------------- MODULE Spec2Model ----------------------------
(***************************************************************************)
(* Joto: parsing and formatting of length, mass and temperature            *)
(* quantities as exact integers of a per-domain base unit (iota, whit,     *)
(* smidge).                                                                *)
(*                                                                         *)
(* Texts are sequences of UTF-16 code units, as the source reads them with *)
(* charCodeAt.  Quantities are JavaScript numbers holding safe integers    *)
(* (up to 2^53-1); they are modelled as exact naturals written as five     *)
(* limbs in base 10^4, least significant limb first, so that two           *)
(* quantities are equal exactly when their limb sequences are equal.       *)
(***************************************************************************)
EXTENDS Integers, Sequences, FiniteSets, TLC

VARIABLES
    dom,            \* "length" | "mass" | "temperature": the module called
    api,            \* "dim" (parseDim / parseDimDiagnostic) | "as" (parseAs / parseAsDiagnostic)
    unit,           \* unit argument of parseAs, parseAsDiagnostic and formatDim
    q,              \* quantity argument of formatDim, [neg, mag]; NoQuantity when the text is given
    opts,           \* format options of formatDim
    given,          \* the parts the caller built its argument from
    text,           \* text argument of the parse calls; formatDim's text once it returned
    fmt,            \* value returned by formatDim
    fast,           \* value returned by parseDim / parseAs: a quantity or Null
    diag,           \* value returned by parseDimDiagnostic / parseAsDiagnostic
    stripScratch,   \* the module-level _stripScratch object of the module called
    numScratch,     \* the module-level _numScratch object of the module called
    calls,          \* the calls that have returned
    inflight        \* calls entered while another call was running: their arguments,
                    \* positions, local variables and results, and the call stack

vars ==
    <<dom, api, unit, q, opts, given, text, fmt, fast, diag, stripScratch, numScratch,
      calls, inflight>>

\* null, where a number is expected: a sequence that is no canonical number
Null == <<-1>>
None == "none"

(***************************************************************************)
(* Safe-integer arithmetic.  A quantity is a natural number below 10^20,   *)
(* written as five limbs in base 10^4, least significant first, so that    *)
(* 2^53 - 1 and every intermediate product of the code is exact.           *)
(***************************************************************************)
BASE == 10 ^ 4


Max2(a, b) == IF a >= b THEN a ELSE b

\* the limbs of five column sums, carries propagated
Norm(c1, c2, c3, c4, c5) ==
    LET v2 == c2 + c1 \div BASE
        v3 == c3 + v2 \div BASE
        v4 == c4 + v3 \div BASE
        v5 == c5 + v4 \div BASE
    IN  <<c1 % BASE, v2 % BASE, v3 % BASE, v4 % BASE, v5 % BASE>>

\* a natural below 2^31 as a quantity
N(k) == <<k % BASE, (k \div BASE) % BASE, k \div (BASE * BASE), 0, 0>>

\* hi * 10^8 + lo as a quantity, for hi and lo below 10^8
N2(hi, lo) == <<lo % BASE, lo \div BASE, hi % BASE, hi \div BASE, 0>>

Zero == <<0, 0, 0, 0, 0>>

BAdd(a, b) == Norm(a[1] + b[1], a[2] + b[2], a[3] + b[3], a[4] + b[4], a[5] + b[5])

\* a - b for a >= b
BSub(a, b) == Norm(a[1] - b[1], a[2] - b[2], a[3] - b[3], a[4] - b[4], a[5] - b[5])

BMul(a, b) ==
    Norm(a[1] * b[1],
         a[1] * b[2] + a[2] * b[1],
         a[1] * b[3] + a[2] * b[2] + a[3] * b[1],
         a[1] * b[4] + a[2] * b[3] + a[3] * b[2] + a[4] * b[1],
         a[1] * b[5] + a[2] * b[4] + a[3] * b[3] + a[4] * b[2] + a[5] * b[1])

BLt(a, b) == \E i \in 1..5 : a[i] < b[i] /\ \A j \in (i + 1)..5 : a[j] = b[j]

BLe(a, b) == ~BLt(b, a)

\* 10^e, e < 20
Pow10(e) ==
    LET l == (e \div 4) + 1
        v == 10 ^ (e % 4)
    IN  <<IF l = 1 THEN v ELSE 0, IF l = 2 THEN v ELSE 0, IF l = 3 THEN v ELSE 0,
          IF l = 4 THEN v ELSE 0, IF l = 5 THEN v ELSE 0>>

\* the most significant limb of a that is not 0 (the first, for 0)
TopLimb(a) ==
    IF a[5] # 0 THEN 5 ELSE IF a[4] # 0 THEN 4 ELSE IF a[3] # 0 THEN 3
    ELSE IF a[2] # 0 THEN 2 ELSE 1

\* String(a).length, given the most significant limb
DigitCountFrom(a, top) ==
    4 * (top - 1)
    + (IF a[top] >= 1000 THEN 4 ELSE IF a[top] >= 100 THEN 3 ELSE IF a[top] >= 10 THEN 2 ELSE 1)

\* String(a).length
DigitCount(a) == DigitCountFrom(a, TopLimb(a))

\* the decimal digit of a at 10^p
DigitAt(a, p) == (a[(p \div 4) + 1] \div 10 ^ (p % 4)) % 10

\* the n least significant decimal digits of a, most significant first
LowDigits(a, n) == <<>> \o [i \in 1..n |-> DigitAt(a, n - i)]

\* decimal digits of a, most significant first, no leading zeros (0 is <<0>>)
Digits(a) == LowDigits(a, DigitCount(a))

\* the quantity written by a sequence of at most 20 decimal digits
FromDigits(ds) ==
    LET n == Len(ds)
        dg(p) == IF p < n THEN ds[n - p] ELSE 0
        limb(i) == dg(4 * i - 4) + 10 * dg(4 * i - 3) + 100 * dg(4 * i - 2) + 1000 * dg(4 * i - 1)
    IN  <<limb(1), limb(2), limb(3), limb(4), limb(5)>>

\* TLC evaluates an operator's arguments on demand.  A loop that tests its
\* running values carries numbers from one step to the next, where it would
\* otherwise carry an expression that grows with every step.
Evaluated(v) == v = v

\* long division, one decimal digit of the quotient per step, from 10^e down:
\* DivFrom takes m = b * 10^e, DivPlace counts the multiples of m that fit
\* into r, DivDigit subtracts them and writes the digit into the quotient
RECURSIVE DivFrom(_, _, _, _)
DivDigit(r, b, e, quo, m, d) ==
    DivFrom(BSub(r, BMul(m, N(d))), b, e - 1,
            [quo EXCEPT ![(e \div 4) + 1] = @ + d * 10 ^ (e % 4)])

DivPlace(r, b, e, quo, m) ==
    DivDigit(r, b, e, quo, m, Cardinality({k \in 1..9 : BLe(BMul(m, N(k)), r)}))

DivFrom(r, b, e, quo) ==
    IF e >= 0 /\ Evaluated(r) /\ Evaluated(quo)
    THEN DivPlace(r, b, e, quo, BMul(b, Pow10(e)))
    ELSE [quo |-> quo, rem |-> r]

\* Math.trunc(a / b) and a % b for safe integers a >= 0, b > 0
DivMod(a, b) == DivFrom(a, b, Max2(0, DigitCount(a) - DigitCount(b)), Zero)

BDiv(a, b) == DivMod(a, b).quo
BMod(a, b) == DivMod(a, b).rem

\* Number.MAX_SAFE_INTEGER = 2^53 - 1 = 9007199254740991
MAX_SAFE_INTEGER == <<991, 5474, 1992, 9007, 0>>


(***************************************************************************)
(* Text helpers (_internal/parse-helpers).  s[i] is s.charCodeAt(i - 1);   *)
(* an end index of the source is the same number here.                     *)
(***************************************************************************)
isAsciiDigitCharCode(c) == c >= 48 /\ c <= 57

\* the ASCII comma alone
isAsciiComma(c) == c = 44

\* ',' and U+2008 PUNCTUATION SPACE
isGroupSeparatorCharCode(c) == c = 44 \/ c = 8200

\* the spaces of ASCII and Latin-1 alone
isLatinSpace(code) == code = 32 \/ code = 160

\* U+0020, U+00A0, U+FEFF, U+202F, U+2000..U+200B
isJotoWhitespaceCharCode(code) ==
    \/ code = 32
    \/ code = 160
    \/ code = 65279
    \/ code = 8239
    \/ (code >= 8192 /\ code <= 8203)

RECURSIVE trimEndJotoWhitespaceIndex(_, _)
trimEndJotoWhitespaceIndex(s, end) ==
    IF end > 0 /\ isJotoWhitespaceCharCode(s[end])
    THEN trimEndJotoWhitespaceIndex(s, end - 1)
    ELSE end

trimEndJotoWhitespace(s) == SubSeq(s, 1, trimEndJotoWhitespaceIndex(s, Len(s)))

\* start of the maximal run of ASCII digits ending at end (as an end index)
RECURSIVE digitsStartIndex(_, _)
digitsStartIndex(s, end) ==
    IF end > 0 /\ isAsciiDigitCharCode(s[end]) THEN digitsStartIndex(s, end - 1) ELSE end

stripTrailingAsciiDigits(s) ==
    LET e == digitsStartIndex(s, Len(s))
    IN  [rest |-> SubSeq(s, 1, e), digits |-> SubSeq(s, e + 1, Len(s))]

\* end of s[start+1..end] once its trailing '0' are dropped
RECURSIVE zeroesTrimIndex(_, _, _)
zeroesTrimIndex(s, start, end) ==
    IF end > start /\ s[end] = 48 THEN zeroesTrimIndex(s, start, end - 1) ELSE end

trimTrailingAsciiZeroes(s) == SubSeq(s, 1, zeroesTrimIndex(s, 0, Len(s)))

\* s.endsWith(suffix, end)
endsWith(s, suffix, end) ==
    /\ end >= Len(suffix)
    /\ SubSeq(s, end - Len(suffix) + 1, end) = suffix

(***************************************************************************)
(* Unit tables.  A length or mass unit is its scale in the source; here a  *)
(* unit is its name and the scale is looked up.                            *)
(***************************************************************************)
LengthUnits ==
    {"Iota", "Inch", "Foot", "Yard", "Point", "Pica", "Nanometer", "Micrometer",
     "Millimeter", "Centimeter", "Decimeter", "Meter", "Q"}

MassUnits ==
    {"Whit", "Microgram", "Milligram", "Gram", "Kilogram", "Megagram", "Dram", "Ounce",
     "Pound", "Stone", "LongHundredweight", "LongTon", "ShortHundredweight", "ShortTon",
     "Grain", "Pennyweight", "TroyOunce"}

TemperatureUnits ==
    {"Smidge", "Millikelvin", "Kelvin", "ThousandthRankine", "Rankine", "Celsius",
     "Fahrenheit"}

Domains == {"length", "mass", "temperature"}

UnitsOf(d) ==
    CASE d = "length" -> LengthUnits
      [] d = "mass" -> MassUnits
      [] d = "temperature" -> TemperatureUnits

\* constants/length
IOTA == N(1)
NANOMETER == N(9)                           \* 9 * IOTA
MICROMETER == N(9000)                       \* 1_000 * NANOMETER
QUARTER_MILLIMETER == N(2250000)            \* 250 * MICROMETER
MILLIMETER == N(9000000)                    \* 1_000 * MICROMETER
CENTIMETER == N(90000000)                   \* 10 * MILLIMETER
DECIMETER == N(900000000)                   \* 10 * CENTIMETER
METER == N2(90, 0)                          \* 1_000 * MILLIMETER
POINT == N(3175000)                         \* 3_175_000 * IOTA
PICA == N(38100000)                         \* 12 * POINT
INCH == N(228600000)                        \* 6 * PICA
FOOT == N2(27, 43200000)                    \* 12 * INCH
YARD == N2(82, 29600000)                    \* 3 * FOOT

\* constants/mass
WHIT == N(1)
MICROGRAM == N(3200)                        \* 3_200 * WHIT
MILLIGRAM == N(3200000)                     \* 1_000 * MICROGRAM
GRAM == N2(32, 0)                           \* 1_000 * MILLIGRAM
KILOGRAM == N2(32000, 0)                    \* 1_000 * GRAM
MEGAGRAM == N2(32000000, 0)                 \* 1_000 * KILOGRAM
DRAM == N2(56, 69904625)                    \* 5_669_904_625 * WHIT
OUNCE == N2(907, 18474000)                  \* 16 * DRAM
POUND == N2(14514, 95584000)                \* 16 * OUNCE
STONE == N2(203209, 38176000)               \* 14 * POUND
LONG_HUNDREDWEIGHT == N2(1625675, 5408000)  \* 8 * STONE
LONG_TON == N2(32513501, 8160000)           \* 20 * LONG_HUNDREDWEIGHT
SHORT_HUNDREDWEIGHT == N2(1451495, 58400000) \* 100 * POUND
SHORT_TON == N2(29029911, 68000000)         \* 20 * SHORT_HUNDREDWEIGHT
GRAIN == N(207356512)                       \* 207_356_512 * WHIT
PENNYWEIGHT == N2(49, 76556288)             \* 24 * GRAIN
TROY_OUNCE == N2(995, 31125760)             \* 20 * PENNYWEIGHT

\* constants/temperature
SMIDGE == N(1)
MILLIKELVIN == N(90)                        \* 90 * SMIDGE
KELVIN == N(90000)                          \* 1_000 * MILLIKELVIN
ZERO_CELSIUS == N(24583500)                 \* 273_150 * MILLIKELVIN
THOUSANDTH_RANKINE == N(50)                 \* 50 * SMIDGE
RANKINE == N(50000)                         \* 1_000 * THOUSANDTH_RANKINE
ZERO_FAHRENHEIT == N(22983500)              \* 459_670 * THOUSANDTH_RANKINE

LengthUnit ==
    [u \in LengthUnits |->
        CASE u = "Iota" -> IOTA
          [] u = "Inch" -> INCH
          [] u = "Foot" -> FOOT
          [] u = "Yard" -> YARD
          [] u = "Point" -> POINT
          [] u = "Pica" -> PICA
          [] u = "Nanometer" -> NANOMETER
          [] u = "Micrometer" -> MICROMETER
          [] u = "Millimeter" -> MILLIMETER
          [] u = "Centimeter" -> CENTIMETER
          [] u = "Decimeter" -> DECIMETER
          [] u = "Meter" -> METER
          [] u = "Q" -> QUARTER_MILLIMETER]

MassUnit ==
    [u \in MassUnits |->
        CASE u = "Whit" -> WHIT
          [] u = "Microgram" -> MICROGRAM
          [] u = "Milligram" -> MILLIGRAM
          [] u = "Gram" -> GRAM
          [] u = "Kilogram" -> KILOGRAM
          [] u = "Megagram" -> MEGAGRAM
          [] u = "Dram" -> DRAM
          [] u = "Ounce" -> OUNCE
          [] u = "Pound" -> POUND
          [] u = "Stone" -> STONE
          [] u = "LongHundredweight" -> LONG_HUNDREDWEIGHT
          [] u = "LongTon" -> LONG_TON
          [] u = "ShortHundredweight" -> SHORT_HUNDREDWEIGHT
          [] u = "ShortTon" -> SHORT_TON
          [] u = "Grain" -> GRAIN
          [] u = "Pennyweight" -> PENNYWEIGHT
          [] u = "TroyOunce" -> TROY_OUNCE]

\* temperature scale(unit)
TemperatureScale ==
    [u \in TemperatureUnits |->
        CASE u = "Smidge" -> SMIDGE
          [] u = "Millikelvin" -> MILLIKELVIN
          [] u \in {"Kelvin", "Celsius"} -> KELVIN
          [] u = "ThousandthRankine" -> THOUSANDTH_RANKINE
          [] u \in {"Rankine", "Fahrenheit"} -> RANKINE]

scale(d, u) ==
    CASE d = "length" -> LengthUnit[u]
      [] d = "mass" -> MassUnit[u]
      [] d = "temperature" -> TemperatureScale[u]

originOffset(u) ==
    CASE u = "Celsius" -> ZERO_CELSIUS
      [] u = "Fahrenheit" -> ZERO_FAHRENHEIT
      [] OTHER -> Zero

LengthMaxDecimalDigits(u) ==
    CASE u \in {"Inch", "Pica", "Yard", "Foot"} -> 5
      [] u = "Meter" -> 9
      [] u = "Decimeter" -> 8
      [] u = "Centimeter" -> 7
      [] u = "Millimeter" -> 6
      [] u = "Q" -> 4
      [] u \in {"Micrometer", "Point"} -> 3
      [] OTHER -> 0

MassMaxDecimalDigits(u) ==
    CASE u = "Microgram" -> 2
      [] u = "Milligram" -> 5
      [] u = "Gram" -> 8
      [] u = "Kilogram" -> 11
      [] u = "Megagram" -> 14
      [] u \in {"Ounce", "Pound", "Stone", "LongHundredweight"} -> 3
      [] u = "LongTon" -> 4
      [] u = "ShortHundredweight" -> 5
      [] u = "ShortTon" -> 6
      [] u = "TroyOunce" -> 1
      [] OTHER -> 0

TemperatureMaxDecimalDigits(u) ==
    CASE u = "Smidge" -> 0
      [] u = "Millikelvin" -> 1
      [] u = "ThousandthRankine" -> 1
      [] OTHER -> 4

maxDecimalDigits(d, u) ==
    CASE d = "length" -> LengthMaxDecimalDigits(u)
      [] d = "mass" -> MassMaxDecimalDigits(u)
      [] d = "temperature" -> TemperatureMaxDecimalDigits(u)

\* the unit taken for its own least significant digit value
unitItself(unitScale, digits) == unitScale

\* length and mass: Math.trunc(u / 10 ** digits), or u itself when digits is 0
ScaledLeastSignificantDigitValue(unitScale, digits) ==
    IF digits = 0 THEN unitScale ELSE BDiv(unitScale, Pow10(digits))

TemperatureLeastSignificantDigitValue(u) ==
    CASE u = "Smidge" -> SMIDGE
      [] u \in {"Millikelvin", "Kelvin", "Celsius"} -> N(9)
      [] OTHER -> N(5)

leastSignificantDigitValue(d, u) ==
    IF d = "temperature" THEN TemperatureLeastSignificantDigitValue(u)
    ELSE ScaledLeastSignificantDigitValue(scale(d, u), maxDecimalDigits(d, u))

superior(d, u) ==
    CASE d = "length" -> (IF u = "Inch" THEN "Foot" ELSE None)
      [] d = "mass" -> (IF u = "Ounce" THEN "Pound" ELSE None)
      [] d = "temperature" -> None

inferior(u) == IF u = "Foot" THEN "Inch" ELSE None

\* the digit count of the largest safe integer, whatever the unit
largestDigitCount(unitScale) == DigitCount(MAX_SAFE_INTEGER)

maxWholeDigitsForUnitScale(unitScale) ==
    IF BLt(MAX_SAFE_INTEGER, unitScale) THEN 0 ELSE DigitCount(BDiv(MAX_SAFE_INTEGER, unitScale))

(***************************************************************************)
(* Parse results.  The diagnostic parsers return ok(value) or err(...);    *)
(* fields an error does not carry are None.                                *)
(***************************************************************************)
\* an error that reports the start of the text as its place
errAtStart(code, index, u) ==
    [ok |-> FALSE, code |-> code, index |-> 0, unit |-> u,
     inferior |-> None, found |-> None, expected |-> None]

err(code, index, u) ==
    [ok |-> FALSE, code |-> code, index |-> index, unit |-> u,
     inferior |-> None, found |-> None, expected |-> None]

\* an InvalidCompound error with the two units exchanged
errCompoundExchanged(index, inf, found, expected) ==
    [ok |-> FALSE, code |-> "InvalidCompound", index |-> index, unit |-> None,
     inferior |-> inf, found |-> expected, expected |-> found]

errCompound(index, inf, found, expected) ==
    [ok |-> FALSE, code |-> "InvalidCompound", index |-> index, unit |-> None,
     inferior |-> inf, found |-> found, expected |-> expected]

ok(value) == [ok |-> TRUE, value |-> value]

okRest(rest, value, hadFrac) ==
    [ok |-> TRUE, rest |-> rest, value |-> value, hadFrac |-> hadFrac]

\* Math.trunc(Number.MAX_SAFE_INTEGER / 10) = 900719925474099
MAX_SAFE_INTEGER_DIV_10 == N2(9007199, 25474099)

\* a unit as the parsers use it: its name and what the module's lookup
\* functions return for it
unitWith(d, u, unitScale, digits) ==
    [domain |-> d, name |-> u, scale |-> unitScale, maxDecimalDigits |-> digits,
     leastSignificantDigitValue |->
         IF d = "temperature" THEN TemperatureLeastSignificantDigitValue(u)
         ELSE ScaledLeastSignificantDigitValue(unitScale, digits),
     maxWholeDigits |-> maxWholeDigitsForUnitScale(unitScale)]

unitOf(d, u) == unitWith(d, u, scale(d, u), maxDecimalDigits(d, u))

(***************************************************************************)
(* Decimal fraction, diagnostic path.                                      *)
(***************************************************************************)
\* a place value that is not raised when the fraction has fewer digits than the unit holds
lowestPlaceValue(pv, i, len) == pv

\* while (i > b.length) { i -= 1; pv *= 10; }
RECURSIVE fracPlaceValue(_, _, _)
fracPlaceValue(pv, i, len) ==
    IF i > len /\ Evaluated(pv) THEN fracPlaceValue(BMul(pv, N(10)), i - 1, len) ELSE pv

\* while (i > 0) { i -= 1; acc += (b.charCodeAt(i) & 0x0f) * pv; pv *= 10; }
RECURSIVE fracAccumulate(_, _, _, _)
fracAccumulate(b, i, pv, acc) ==
    IF i > 0 /\ Evaluated(pv) /\ Evaluated(acc)
    THEN fracAccumulate(b, i - 1, BMul(pv, N(10)), BAdd(acc, BMul(N(b[i] - 48), pv)))
    ELSE acc

takeDecimalFrac(U, rest) ==
    LET at == Len(rest)
        st == stripTrailingAsciiDigits(rest)
        dRest == st.rest
        digits == st.digits
        hadFracDigits == Len(digits) > 0
        nonzeroDigits == trimTrailingAsciiZeroes(digits)
        len == Len(nonzeroDigits)
        r == SubSeq(dRest, 1, Len(dRest) - 1)
        scaleDigits == U.maxDecimalDigits
    IN  IF endsWith(rest, <<46>>, Len(rest))
        THEN LET r0 == SubSeq(rest, 1, Len(rest) - 1)
             IN  IF Len(r0) > 0 /\ isAsciiDigitCharCode(r0[Len(r0)])
                 THEN okRest(r0, Zero, FALSE)
                 ELSE err("EmptyQuantity", at, U.name)
        ELSE IF Len(dRest) = 0 THEN okRest(rest, Zero, FALSE)
        ELSE IF ~endsWith(dRest, <<46>>, Len(dRest)) THEN okRest(rest, Zero, FALSE)
        ELSE IF len = 0
        THEN IF Len(r) > 0 \/ Len(digits) > 0
             THEN okRest(r, Zero, hadFracDigits)
             ELSE err("EmptyQuantity", at, U.name)
        ELSE IF len > scaleDigits THEN err("TooPrecise", at, U.name)
        ELSE okRest(r,
                    fracAccumulate(nonzeroDigits, len,
                        fracPlaceValue(U.leastSignificantDigitValue, scaleDigits, len),
                        Zero),
                    TRUE)

(***************************************************************************)
(* Whole number, diagnostic path.                                          *)
(***************************************************************************)
\* the while loop of parseWhole and what follows it
RECURSIVE parseWholeLoop(_, _, _, _, _, _, _)
parseWholeLoop(u, s, i, pv, digitsSeen, acc, maxDigits) ==
    IF i > 0 /\ s[i] >= 48 /\ s[i] <= 57 /\ Evaluated(pv) /\ Evaluated(acc)
    THEN IF digitsSeen < maxDigits
         THEN IF s[i] # 48 /\ BLt(BSub(MAX_SAFE_INTEGER, acc), BMul(pv, N(s[i] - 48)))
              THEN err("TooBig", i, u)
              ELSE IF digitsSeen + 1 < maxDigits /\ BLt(MAX_SAFE_INTEGER_DIV_10, pv)
              THEN err("TooBig", i, u)
              ELSE parseWholeLoop(u, s, i - 1,
                       IF digitsSeen + 1 < maxDigits THEN BMul(pv, N(10)) ELSE pv,
                       digitsSeen + 1,
                       IF s[i] # 48 THEN BAdd(acc, BMul(pv, N(s[i] - 48))) ELSE acc,
                       maxDigits)
         ELSE IF s[i] # 48
         THEN err("TooBig", i, u)
         ELSE parseWholeLoop(u, s, i - 1, pv, digitsSeen, acc, maxDigits)
    ELSE IF i > 0 /\ isGroupSeparatorCharCode(s[i])
    THEN parseWholeLoop(u, s, i - 1, pv, digitsSeen, acc, maxDigits)
    ELSE okRest(SubSeq(s, 1, i), acc, FALSE)

parseWhole(U, acc, s) ==
    IF Len(s) = 0 \/ ~isAsciiDigitCharCode(s[Len(s)])
    THEN err("EmptyQuantity", Len(s), U.name)
    ELSE parseWholeLoop(U.name, s, Len(s), U.scale, 0, acc, U.maxWholeDigits)

\* a writer that sets hadFrac when a fraction is found and never clears it
raisedHadFrac(d, out, restEnd, value, hadFrac) ==
    IF d = "temperature"
    THEN [restEnd |-> restEnd, value |-> value, hadFrac |-> out.hadFrac \/ hadFrac]
    ELSE [restEnd |-> restEnd, value |-> value]

(***************************************************************************)
(* Whole number and decimal fraction, fast path.  out is the _numScratch   *)
(* object; each operator returns what the function returns and the object  *)
(* as the function leaves it.                                              *)
(***************************************************************************)
\* out.restEnd = ...; out.value = ...; (temperature: out.hadFrac = ...)
setNum(d, out, restEnd, value, hadFrac) ==
    IF d = "temperature"
    THEN [restEnd |-> restEnd, value |-> value, hadFrac |-> hadFrac]
    ELSE [restEnd |-> restEnd, value |-> value]

\* out.restEnd = ...; out.value = ...; (parseWholeFast leaves hadFrac alone)
setNumWhole(out, restEnd, value) ==
    [out EXCEPT !.restEnd = restEnd, !.value = value]

\* the while loop of parseWholeFast and what follows it
RECURSIVE parseWholeFastLoop(_, _, _, _, _, _, _)
parseWholeFastLoop(s, i, pv, digitsSeen, acc, maxDigits, out) ==
    IF i > 0 /\ isAsciiDigitCharCode(s[i]) /\ Evaluated(pv) /\ Evaluated(acc)
    THEN IF digitsSeen < maxDigits
         THEN IF s[i] # 48 /\ BLt(BSub(MAX_SAFE_INTEGER, acc), BMul(pv, N(s[i] - 48)))
              THEN [status |-> -1, out |-> out]
              ELSE IF digitsSeen + 1 < maxDigits /\ BLt(MAX_SAFE_INTEGER_DIV_10, pv)
              THEN [status |-> -1, out |-> out]
              ELSE parseWholeFastLoop(s, i - 1,
                       IF digitsSeen + 1 < maxDigits THEN BMul(pv, N(10)) ELSE pv,
                       digitsSeen + 1,
                       IF s[i] # 48 THEN BAdd(acc, BMul(pv, N(s[i] - 48))) ELSE acc,
                       maxDigits, out)
         ELSE IF s[i] # 48
         THEN [status |-> -1, out |-> out]
         ELSE parseWholeFastLoop(s, i - 1, pv, digitsSeen, acc, maxDigits, out)
    ELSE IF i > 0 /\ isGroupSeparatorCharCode(s[i])
    THEN parseWholeFastLoop(s, i - 1, pv, digitsSeen, acc, maxDigits, out)
    ELSE [status |-> 1, out |-> setNumWhole(out, i, acc)]

\* MAX_WHOLE_DIGITS_BY_UNIT_SCALE holds maxWholeDigitsForUnitScale of every unit
parseWholeFast(U, acc, s, end, out) ==
    IF end = 0 \/ ~isAsciiDigitCharCode(s[end])
    THEN [status |-> 0, out |-> out]
    ELSE parseWholeFastLoop(s, end, U.scale, 0, acc, U.maxWholeDigits, out)

\* for (let k = len - 1; k >= 0; k -= 1) { acc += digit(digitsStart + k) * pv; pv *= 10; }
RECURSIVE fracAccumulateFast(_, _, _, _, _)
fracAccumulateFast(s, digitsStart, k, pv, acc) ==
    IF k >= 0 /\ Evaluated(pv) /\ Evaluated(acc)
    THEN fracAccumulateFast(s, digitsStart, k - 1, BMul(pv, N(10)),
             BAdd(acc, BMul(N(s[digitsStart + k + 1] - 48), pv)))
    ELSE acc

takeDecimalFracFast(U, s, end, out) ==
    LET digitsEnd == end
        digitsStart == digitsStartIndex(s, end)
        restEnd == digitsStart - 1
        nzEnd == zeroesTrimIndex(s, digitsStart, digitsEnd)
        len == nzEnd - digitsStart
        scaleDigits == U.maxDecimalDigits
    IN  IF end > 0 /\ s[end] = 46
        THEN IF end - 1 > 0 /\ isAsciiDigitCharCode(s[end - 1])
             THEN [ret |-> TRUE, out |-> setNum(U.domain, out, end - 1, Zero, FALSE)]
             ELSE [ret |-> FALSE, out |-> out]
        ELSE IF digitsStart = digitsEnd
        THEN [ret |-> TRUE, out |-> setNum(U.domain, out, end, Zero, FALSE)]
        ELSE IF digitsStart = 0 \/ s[digitsStart] # 46
        THEN [ret |-> TRUE, out |-> setNum(U.domain, out, end, Zero, FALSE)]
        ELSE IF len = 0
        THEN [ret |-> TRUE, out |-> setNum(U.domain, out, restEnd, Zero, TRUE)]
        ELSE IF len > scaleDigits THEN [ret |-> FALSE, out |-> out]
        ELSE [ret |-> TRUE,
              out |-> setNum(U.domain, out, restEnd,
                         fracAccumulateFast(s, digitsStart, len - 1,
                             fracPlaceValue(U.leastSignificantDigitValue, scaleDigits, len),
                             Zero),
                         TRUE)]

(***************************************************************************)
(* Suffix matchers.  out is the _stripScratch object.                      *)
(***************************************************************************)
setStrip(out, restEnd, u) == [ret |-> TRUE, out |-> [restEnd |-> restEnd, unit |-> u]]

\* a matcher that looks at the last code unit alone
lastCodeUnitAt(s, end, out) ==
    CASE endsWith(s, <<109>>, end) -> setStrip(out, end - 1, "Meter")
      [] endsWith(s, <<81>>, end) -> setStrip(out, end - 1, "Q")
      [] endsWith(s, <<34>>, end) -> setStrip(out, end - 1, "Inch")
      [] endsWith(s, <<39>>, end) -> setStrip(out, end - 1, "Foot")
      [] OTHER -> [ret |-> FALSE, out |-> out]

LengthStripUnitAt(s, end, out) ==
    CASE endsWith(s, <<34>>, end) -> setStrip(out, end - 1, "Inch")                \* "
      [] endsWith(s, <<105, 110>>, end) -> setStrip(out, end - 2, "Inch")          \* in
      [] endsWith(s, <<8243>>, end) -> setStrip(out, end - 1, "Inch")              \* U+2033
      [] endsWith(s, <<39>>, end) -> setStrip(out, end - 1, "Foot")                \* '
      [] endsWith(s, <<102, 116>>, end) -> setStrip(out, end - 2, "Foot")          \* ft
      [] endsWith(s, <<8242>>, end) -> setStrip(out, end - 1, "Foot")              \* U+2032
      [] endsWith(s, <<121, 100>>, end) -> setStrip(out, end - 2, "Yard")          \* yd
      [] endsWith(s, <<110, 109>>, end) -> setStrip(out, end - 2, "Nanometer")     \* nm
      [] endsWith(s, <<117, 109>>, end) -> setStrip(out, end - 2, "Micrometer")    \* um
      [] endsWith(s, <<181, 109>>, end) -> setStrip(out, end - 2, "Micrometer")    \* U+00B5 m
      [] endsWith(s, <<956, 109>>, end) -> setStrip(out, end - 2, "Micrometer")    \* U+03BC m
      [] endsWith(s, <<109, 109>>, end) -> setStrip(out, end - 2, "Millimeter")    \* mm
      [] endsWith(s, <<99, 109>>, end) -> setStrip(out, end - 2, "Centimeter")     \* cm
      [] endsWith(s, <<100, 109>>, end) -> setStrip(out, end - 2, "Decimeter")     \* dm
      [] endsWith(s, <<109>>, end) -> setStrip(out, end - 1, "Meter")              \* m
      [] endsWith(s, <<81>>, end) -> setStrip(out, end - 1, "Q")                   \* Q
      [] endsWith(s, <<112, 116>>, end) -> setStrip(out, end - 2, "Point")         \* pt
      [] endsWith(s, <<112, 99>>, end) -> setStrip(out, end - 2, "Pica")           \* pc
      [] endsWith(s, <<105, 111>>, end) -> setStrip(out, end - 2, "Iota")          \* io
      [] OTHER -> [ret |-> FALSE, out |-> out]

MassStripUnitAt(s, end, out) ==
    CASE endsWith(s, <<111, 122, 116>>, end) -> setStrip(out, end - 3, "TroyOunce")           \* ozt
      [] endsWith(s, <<100, 119, 116>>, end) -> setStrip(out, end - 3, "Pennyweight")         \* dwt
      [] endsWith(s, <<99, 119, 116>>, end) -> setStrip(out, end - 3, "ShortHundredweight")   \* cwt
      [] endsWith(s, <<99, 119, 116, 46, 108>>, end) \/ endsWith(s, <<99, 119, 116, 95, 108>>, end)
            -> setStrip(out, end - 5, "LongHundredweight")                                    \* cwt.l cwt_l
      [] endsWith(s, <<116, 110, 46, 108>>, end) \/ endsWith(s, <<116, 110, 95, 108>>, end)
            -> setStrip(out, end - 4, "LongTon")                                              \* tn.l tn_l
      [] endsWith(s, <<108, 98>>, end) -> setStrip(out, end - 2, "Pound")                     \* lb
      [] endsWith(s, <<115, 116>>, end) -> setStrip(out, end - 2, "Stone")                    \* st
      [] endsWith(s, <<116, 110>>, end) -> setStrip(out, end - 2, "ShortTon")                 \* tn
      [] endsWith(s, <<100, 114>>, end) -> setStrip(out, end - 2, "Dram")                     \* dr
      [] endsWith(s, <<111, 122>>, end) -> setStrip(out, end - 2, "Ounce")                    \* oz
      [] endsWith(s, <<103, 114>>, end) -> setStrip(out, end - 2, "Grain")                    \* gr
      [] endsWith(s, <<119, 116>>, end) -> setStrip(out, end - 2, "Whit")                     \* wt
      [] endsWith(s, <<107, 103>>, end) -> setStrip(out, end - 2, "Kilogram")                 \* kg
      [] endsWith(s, <<109, 103>>, end) -> setStrip(out, end - 2, "Milligram")                \* mg
      [] endsWith(s, <<109, 99, 103>>, end) -> setStrip(out, end - 3, "Microgram")            \* mcg
      [] endsWith(s, <<117, 103>>, end) -> setStrip(out, end - 2, "Microgram")                \* ug
      [] endsWith(s, <<181, 103>>, end) -> setStrip(out, end - 2, "Microgram")                \* U+00B5 g
      [] endsWith(s, <<956, 103>>, end) -> setStrip(out, end - 2, "Microgram")                \* U+03BC g
      [] endsWith(s, <<103>>, end) -> setStrip(out, end - 1, "Gram")                          \* g
      [] endsWith(s, <<116>>, end) -> setStrip(out, end - 1, "Megagram")                      \* t
      [] OTHER -> [ret |-> FALSE, out |-> out]

TemperatureStripUnitAt(s, end, out) ==
    CASE endsWith(s, <<115, 100>>, end) -> setStrip(out, end - 2, "Smidge")                   \* sd
      [] endsWith(s, <<176, 67>>, end) -> setStrip(out, end - 2, "Celsius")                   \* U+00B0 C
      [] endsWith(s, <<67>>, end) -> setStrip(out, end - 1, "Celsius")                        \* C
      [] endsWith(s, <<176, 70>>, end) -> setStrip(out, end - 2, "Fahrenheit")                \* U+00B0 F
      [] endsWith(s, <<70>>, end) -> setStrip(out, end - 1, "Fahrenheit")                     \* F
      [] endsWith(s, <<109, 75>>, end) -> setStrip(out, end - 2, "Millikelvin")               \* mK
      [] endsWith(s, <<75>>, end) -> setStrip(out, end - 1, "Kelvin")                         \* K
      [] endsWith(s, <<109, 176, 82>>, end) -> setStrip(out, end - 3, "ThousandthRankine")    \* m U+00B0 R
      [] endsWith(s, <<109, 82>>, end) -> setStrip(out, end - 2, "ThousandthRankine")         \* mR
      [] endsWith(s, <<176, 82>>, end) -> setStrip(out, end - 2, "Rankine")                   \* U+00B0 R
      [] endsWith(s, <<82>>, end) -> setStrip(out, end - 1, "Rankine")                        \* R
      [] OTHER -> [ret |-> FALSE, out |-> out]

stripUnitAt(d, s, end, out) ==
    CASE d = "length" -> LengthStripUnitAt(s, end, out)
      [] d = "mass" -> MassStripUnitAt(s, end, out)
      [] d = "temperature" -> TemperatureStripUnitAt(s, end, out)


\* { rest: s.slice(0, out.restEnd), unit: out.unit } when stripUnitAt returned true
strippedUnit(s, r) ==
    IF ~r.ret THEN [found |-> FALSE, out |-> r.out]
    ELSE [found |-> TRUE, rest |-> SubSeq(s, 1, r.out.restEnd), unit |-> r.out.unit,
          out |-> r.out]

\* stripUnit(s): null (found = FALSE), or { rest, unit }; out is _stripScratch
\* as the call leaves it
stripUnit(d, s, strip) == strippedUnit(s, stripUnitAt(d, s, Len(s), strip))

(***************************************************************************)
(* Inch fractions (length only).                                           *)
(***************************************************************************)
\* every denominator taken for 64
sixtyFourths(s) == 64

\* the den of parseInchDenomPv(s); null is 0
parseInchDenomPv(s) ==
    CASE s = <<50>> -> 2
      [] s = <<52>> -> 4
      [] s = <<56>> -> 8
      [] s = <<49, 54>> -> 16
      [] s = <<51, 50>> -> 32
      [] s = <<54, 52>> -> 64
      [] OTHER -> 0

\* the pv of parseInchDenomPv: c.INCH / den
inchPlaceValue(den) == BDiv(INCH, N(den))

\* null is -1; the argument is a run of ASCII digits, so c & 0x0f is c - 48
parseInchNum(s) ==
    CASE Len(s) = 1 -> s[1] - 48
      [] Len(s) = 2 -> (s[1] - 48) * 10 + (s[2] - 48)
      [] OTHER -> -1

\* U is the inch
takeInchFrac(U, rest) ==
    LET at == Len(rest)
        st == stripTrailingAsciiDigits(rest)
        dRest == st.rest
        denomDigits == st.digits
    IN  IF Len(denomDigits) = 0 THEN err("EmptyQuantity", at, U.name)
        ELSE IF endsWith(dRest, <<47>>, Len(dRest)) \/ endsWith(dRest, <<8260>>, Len(dRest))
        THEN LET den == parseInchDenomPv(denomDigits)
                 s == SubSeq(dRest, 1, Len(dRest) - 1)
                 atNum == Len(s)
                 sn == stripTrailingAsciiDigits(s)
                 num == parseInchNum(sn.digits)
             IN  IF den = 0 THEN err("BadDenominator", at, U.name)
                 ELSE IF Len(sn.digits) = 0 THEN err("BadNumerator", atNum, U.name)
                 ELSE IF num = -1 \/ num < 1 \/ num >= den
                 THEN err("BadNumerator", atNum, U.name)
                 ELSE okRest(trimEndJotoWhitespace(sn.rest),
                             BMul(inchPlaceValue(den), N(num)), FALSE)
        ELSE IF endsWith(dRest, <<46>>, Len(dRest))
        THEN LET scaleDigits == U.maxDecimalDigits
                 r == SubSeq(dRest, 1, Len(dRest) - 1)
                 atR == Len(r)
                 digits == trimTrailingAsciiZeroes(denomDigits)
                 len == Len(digits)
             IN  IF len = 0 THEN okRest(r, Zero, FALSE)
                 ELSE IF len > scaleDigits THEN err("TooPrecise", atR, U.name)
                 ELSE okRest(r,
                          fracAccumulate(digits, len,
                              fracPlaceValue(U.leastSignificantDigitValue, scaleDigits, len),
                              Zero),
                          FALSE)
        ELSE okRest(rest, Zero, FALSE)

\* the denominator is s[denomStart+1..denomEnd]
parseInchDenomFast(s, denomStart, denomEnd) ==
    LET len == denomEnd - denomStart
        d0 == s[denomStart + 1] - 48
        v == d0 * 10 + (s[denomStart + 2] - 48)
    IN  CASE len = 1 -> (IF d0 \in {2, 4, 8} THEN d0 ELSE 0)
          [] len = 2 -> (IF v \in {16, 32, 64} THEN v ELSE 0)
          [] OTHER -> 0

\* a numerator reader that looks at the first digit only
firstDigitFast(s, start, end) == s[start + 1] - 48

\* null is -1
parseInchNumFast(s, start, end) ==
    LET len == end - start
    IN  CASE len = 1 -> s[start + 1] - 48
          [] len = 2 -> (s[start + 1] - 48) * 10 + (s[start + 2] - 48)
          [] OTHER -> -1

\* U is the inch
takeInchFracFast(U, s, end, out) ==
    LET denomEnd == end
        denomStart == digitsStartIndex(s, end)
        sep == s[denomStart]
        den == parseInchDenomFast(s, denomStart, denomEnd)
        numEnd == denomStart - 1
        numStart == digitsStartIndex(s, numEnd)
        num == parseInchNumFast(s, numStart, numEnd)
        restEnd == denomStart - 1
        nzEnd == zeroesTrimIndex(s, denomStart, denomEnd)
        len == nzEnd - denomStart
        scaleDigits == U.maxDecimalDigits
    IN  IF denomStart = denomEnd THEN [ret |-> FALSE, out |-> out]
        ELSE IF denomStart > 0 /\ (sep = 47 \/ sep = 8260)
        THEN IF den = 0 THEN [ret |-> FALSE, out |-> out]
             ELSE IF numStart = numEnd THEN [ret |-> FALSE, out |-> out]
             ELSE IF num = -1 \/ num < 1 \/ num >= den THEN [ret |-> FALSE, out |-> out]
             ELSE [ret |-> TRUE,
                   out |-> setNumWhole(out, trimEndJotoWhitespaceIndex(s, numStart),
                               BMul(inchPlaceValue(den), N(num)))]
        ELSE IF denomStart > 0 /\ sep = 46
        THEN IF len = 0 THEN [ret |-> TRUE, out |-> setNumWhole(out, restEnd, Zero)]
             ELSE IF len > scaleDigits THEN [ret |-> FALSE, out |-> out]
             ELSE [ret |-> TRUE,
                   out |-> setNumWhole(out, restEnd,
                               fracAccumulateFast(s, denomStart, len - 1,
                                   fracPlaceValue(U.leastSignificantDigitValue,
                                                  scaleDigits, len),
                                   Zero))]
        ELSE [ret |-> TRUE, out |-> setNumWhole(out, end, Zero)]

(***************************************************************************)
(* The parsers.  parseDimDiagnostic, parseDim, parseAsDiagnostic and       *)
(* parseAs of the three modules share their first steps (trim, match the   *)
(* suffix) and differ in how the quantity before the suffix is read.  A    *)
(* step that needs the result of a call takes it as an argument.           *)
(***************************************************************************)
\* a diagnostic parser returns res and leaves _stripScratch as strip
diagnostic(res, strip) == [res |-> res, strip |-> strip]

\* a fast parser returns ret (a quantity or Null) and leaves the two scratch objects
result(ret, strip, num) == [ret |-> ret, strip |-> strip, num |-> num]

\* if (!supWhole.ok) return supWhole; return ok(supWhole.value.value);
wholeValue(wholeRes) == IF ~wholeRes.ok THEN wholeRes ELSE ok(wholeRes.value)

\* length and mass, after the suffix before the inferior quantity was matched
superiorDiagnostic(U, sup, acc, at, supStripped) ==
    IF supStripped.found
    THEN IF supStripped.unit = sup
         THEN diagnostic(wholeValue(parseWhole(unitOf(U.domain, sup), acc,
                                               trimEndJotoWhitespace(supStripped.rest))),
                         supStripped.out)
         ELSE diagnostic(errCompound(at, U.name, supStripped.unit, sup), supStripped.out)
    ELSE diagnostic(ok(acc), supStripped.out)

\* length and mass: after the whole part of a unit that has a superior, look
\* for the superior's quantity
compoundDiagnostic(U, acc, restAfterWhole, strip) ==
    LET sup == superior(U.domain, U.name)
        restSup0 == trimEndJotoWhitespace(restAfterWhole)
    IN  IF sup = None THEN diagnostic(ok(acc), strip)
        ELSE superiorDiagnostic(U, sup, acc, Len(restSup0),
                                stripUnit(U.domain, restSup0, strip))

\* length and mass, after parseWhole
wholeDiagnostic(U, acc, wholeRes, compound, strip) ==
    IF ~wholeRes.ok
    THEN IF wholeRes.code = "EmptyQuantity" /\ acc # Zero
         THEN diagnostic(ok(acc), strip)
         ELSE diagnostic(wholeRes, strip)
    ELSE IF compound
    THEN compoundDiagnostic(U, wholeRes.value, wholeRes.rest, strip)
    ELSE diagnostic(ok(wholeRes.value), strip)

\* length, after the fraction was taken: the inch goes on to parseWhole when
\* nothing is left before the fraction, every other unit returns the fraction
LengthFractionDiagnostic(U, r, compound, strip) ==
    IF ~r.ok THEN diagnostic(r, strip)
    ELSE IF U.name # "Inch" /\ Len(r.rest) = 0 THEN diagnostic(ok(r.value), strip)
    ELSE wholeDiagnostic(U, r.value, parseWhole(U, r.value, r.rest), compound, strip)

LengthQuantityDiagnostic(U, rest, compound, strip) ==
    LengthFractionDiagnostic(U,
        IF U.name = "Inch" THEN takeInchFrac(U, rest) ELSE takeDecimalFrac(U, rest),
        compound, strip)

MassFractionDiagnostic(U, fracRes, compound, strip) ==
    IF ~fracRes.ok THEN diagnostic(fracRes, strip)
    ELSE IF Len(fracRes.rest) = 0 THEN diagnostic(ok(fracRes.value), strip)
    ELSE wholeDiagnostic(U, fracRes.value, parseWhole(U, fracRes.value, fracRes.rest),
                         compound, strip)

MassQuantityDiagnostic(U, rest, compound, strip) ==
    MassFractionDiagnostic(U, takeDecimalFrac(U, rest), compound, strip)

(***************************************************************************)
(* Temperature: a relative unit (Celsius, Fahrenheit) has a non-zero       *)
(* origin offset and accepts a sign before the number.                     *)
(***************************************************************************)
\* a text taken as unsigned
unsigned(s) == [rest |-> s, sign |-> 1, has |-> FALSE]

stripSign(s) ==
    CASE endsWith(s, <<43>>, Len(s)) -> [rest |-> SubSeq(s, 1, Len(s) - 1), sign |-> 1, has |-> TRUE]
      [] endsWith(s, <<45>>, Len(s)) -> [rest |-> SubSeq(s, 1, Len(s) - 1), sign |-> -1, has |-> TRUE]
      [] endsWith(s, <<8722>>, Len(s)) -> [rest |-> SubSeq(s, 1, Len(s) - 1), sign |-> -1, has |-> TRUE]
      [] OTHER -> [rest |-> s, sign |-> 1, has |-> FALSE]

\* the magnitude returned as it was read
magnitudeAlone(u, acc, rest) == ok(acc)

finalize(u, acc, rest) ==
    LET trimmed == trimEndJotoWhitespace(rest)
        signInfo == stripSign(trimmed)
        origin == originOffset(u)
        v == BAdd(origin, acc)
    IN  IF signInfo.has /\ origin = Zero THEN err("InvalidSign", Len(signInfo.rest), u)
        ELSE IF signInfo.has /\ signInfo.sign < 0
        THEN IF BLt(origin, acc) THEN err("TooSmall", Len(signInfo.rest), u)
             ELSE ok(BSub(origin, acc))
        ELSE IF BLt(MAX_SAFE_INTEGER, v) THEN err("TooBig", Len(signInfo.rest), u)
        ELSE ok(v)

\* the origin added without a look at the sign or at the limit
originAdded(u, acc, s, end) == BAdd(originOffset(u), acc)

\* null is Null
finalizeFast(u, acc, s, end) ==
    LET restEnd == trimEndJotoWhitespaceIndex(s, end)
        c == s[restEnd]
        hasSign == restEnd > 0 /\ (c = 43 \/ c = 45 \/ c = 8722)
        sign == IF restEnd > 0 /\ (c = 45 \/ c = 8722) THEN -1 ELSE 1
        origin == originOffset(u)
        v == BAdd(origin, acc)
    IN  IF hasSign /\ origin = Zero THEN Null
        ELSE IF hasSign /\ sign < 0
        THEN IF BLt(origin, acc) THEN Null ELSE BSub(origin, acc)
        ELSE IF BLt(MAX_SAFE_INTEGER, v) THEN Null ELSE v

\* temperature, after parseWhole
TemperatureWholeDiagnostic(U, fracRes, wholeRes) ==
    IF ~wholeRes.ok
    THEN IF wholeRes.code = "EmptyQuantity" /\ fracRes.hadFrac
         THEN finalize(U.name, fracRes.value, fracRes.rest)
         ELSE wholeRes
    ELSE finalize(U.name, wholeRes.value, wholeRes.rest)

\* temperature, after the fraction was taken
TemperatureFractionDiagnostic(U, fracRes, strip) ==
    IF ~fracRes.ok THEN diagnostic(fracRes, strip)
    ELSE IF Len(fracRes.rest) = 0
    THEN diagnostic(finalize(U.name, fracRes.value, fracRes.rest), strip)
    ELSE diagnostic(TemperatureWholeDiagnostic(U, fracRes,
                        parseWhole(U, fracRes.value, fracRes.rest)),
                    strip)

TemperatureQuantityDiagnostic(U, rest, strip) ==
    TemperatureFractionDiagnostic(U, takeDecimalFrac(U, rest), strip)

\* the part of the diagnostic parsers after the unit is known
quantityDiagnostic(U, rest, compound, strip) ==
    CASE U.domain = "length" -> LengthQuantityDiagnostic(U, rest, compound, strip)
      [] U.domain = "mass" -> MassQuantityDiagnostic(U, rest, compound, strip)
      [] U.domain = "temperature" -> TemperatureQuantityDiagnostic(U, rest, strip)

\* parseDimDiagnostic, after stripUnit
strippedDiagnostic(d, at, stripped) ==
    IF ~stripped.found THEN diagnostic(err("NoUnit", at, None), stripped.out)
    ELSE IF Len(trimEndJotoWhitespace(stripped.rest)) = 0
    THEN diagnostic(err("EmptyQuantity", Len(stripped.rest), stripped.unit), stripped.out)
    ELSE quantityDiagnostic(unitOf(d, stripped.unit), trimEndJotoWhitespace(stripped.rest),
                            TRUE, stripped.out)

parseDimDiagnostic(d, s, strip) ==
    LET rest0 == trimEndJotoWhitespace(s)
    IN  IF Len(rest0) = 0 THEN diagnostic(err("Empty", 0, None), strip)
        ELSE strippedDiagnostic(d, Len(rest0), stripUnit(d, rest0, strip))

parseAsDiagnostic(d, s, u, strip) ==
    LET rest0 == trimEndJotoWhitespace(s)
    IN  IF Len(rest0) = 0 THEN diagnostic(err("EmptyQuantity", 0, u), strip)
        ELSE quantityDiagnostic(unitOf(d, u), rest0, FALSE, strip)

\* if (supWholeStatus <= 0) return null; return num.value;
superiorWholeFast(supWhole, strip) ==
    IF supWhole.status <= 0 THEN result(Null, strip, supWhole.out)
    ELSE result(supWhole.out.value, strip, supWhole.out)

\* a parser that reads a second whole number of the superior unit to the left
\* of the first
superiorTwice(U, sup, acc, s, st, num) ==
    IF st.ret
    THEN IF st.out.unit # sup THEN result(Null, st.out, num)
         ELSE LET first == parseWholeFast(unitOf(U.domain, sup), acc, s,
                               trimEndJotoWhitespaceIndex(s, st.out.restEnd), num)
                  second == parseWholeFast(unitOf(U.domain, sup), first.out.value, s,
                                trimEndJotoWhitespaceIndex(s, first.out.restEnd), first.out)
              IN  IF first.status <= 0 THEN result(Null, st.out, first.out)
                  ELSE IF second.status <= 0 THEN result(first.out.value, st.out, first.out)
                  ELSE result(second.out.value, st.out, second.out)
    ELSE result(acc, st.out, num)

\* length and mass, after stripUnitAt looked for the superior's suffix
superiorFast(U, sup, acc, s, st, num) ==
    IF st.ret
    THEN IF st.out.unit # sup THEN result(Null, st.out, num)
         ELSE superiorWholeFast(
                  parseWholeFast(unitOf(U.domain, sup), acc, s,
                                 trimEndJotoWhitespaceIndex(s, st.out.restEnd), num),
                  st.out)
    ELSE result(acc, st.out, num)

\* a quantity read without looking for a superior one before it
inferiorAlone(U, acc, s, end, strip, num) == result(acc, strip, num)

compoundFast(U, acc, s, end, strip, num) ==
    LET sup == superior(U.domain, U.name)
    IN  IF sup = None THEN result(acc, strip, num)
        ELSE superiorFast(U, sup, acc, s,
                          stripUnitAt(U.domain, s, trimEndJotoWhitespaceIndex(s, end), strip),
                          num)

\* length and mass, after parseWholeFast; acc is the fraction
wholeFast(U, acc, s, w, strip, compound) ==
    IF w.status = 0 THEN result(IF acc # Zero THEN acc ELSE Null, strip, w.out)
    ELSE IF w.status < 0 THEN result(Null, strip, w.out)
    ELSE IF compound
    THEN compoundFast(U, w.out.value, s, w.out.restEnd, strip, w.out)
    ELSE result(w.out.value, strip, w.out)

\* length and mass, after the fraction was taken
fractionFast(U, s, f, strip, compound) ==
    IF ~f.ret THEN result(Null, strip, f.out)
    ELSE IF f.out.restEnd = 0 THEN result(f.out.value, strip, f.out)
    ELSE wholeFast(U, f.out.value, s,
                   parseWholeFast(U, f.out.value, s, f.out.restEnd, f.out),
                   strip, compound)

LengthQuantityFast(U, s, end, strip, num, compound) ==
    fractionFast(U, s,
        IF U.name = "Inch" THEN takeInchFracFast(U, s, end, num)
        ELSE takeDecimalFracFast(U, s, end, num),
        strip, compound)

MassQuantityFast(U, s, end, strip, num, compound) ==
    fractionFast(U, s, takeDecimalFracFast(U, s, end, num), strip, compound)

\* temperature, after parseWholeFast
TemperatureWholeFast(U, s, f, w, strip) ==
    IF w.status = 0
    THEN result(IF f.out.hadFrac THEN finalizeFast(U.name, f.out.value, s, f.out.restEnd)
                ELSE Null,
                strip, w.out)
    ELSE IF w.status < 0 THEN result(Null, strip, w.out)
    ELSE result(finalizeFast(U.name, w.out.value, s, w.out.restEnd), strip, w.out)

\* temperature, after the fraction was taken
TemperatureFractionFast(U, s, f, strip) ==
    IF ~f.ret THEN result(Null, strip, f.out)
    ELSE IF f.out.restEnd = 0
    THEN result(finalizeFast(U.name, f.out.value, s, f.out.restEnd), strip, f.out)
    ELSE TemperatureWholeFast(U, s, f,
             parseWholeFast(U, f.out.value, s, f.out.restEnd, f.out), strip)

TemperatureQuantityFast(U, s, end, strip, num) ==
    TemperatureFractionFast(U, s, takeDecimalFracFast(U, s, end, num), strip)

\* the part of the fast parsers after the unit is known
quantityFast(U, s, end, strip, num, compound) ==
    CASE U.domain = "length" -> LengthQuantityFast(U, s, end, strip, num, compound)
      [] U.domain = "mass" -> MassQuantityFast(U, s, end, strip, num, compound)
      [] U.domain = "temperature" -> TemperatureQuantityFast(U, s, end, strip, num)

\* parseDim, after stripUnitAt
strippedFast(d, s, st, num) ==
    IF ~st.ret THEN result(Null, st.out, num)
    ELSE IF trimEndJotoWhitespaceIndex(s, st.out.restEnd) = 0 THEN result(Null, st.out, num)
    ELSE quantityFast(unitOf(d, st.out.unit), s,
                      trimEndJotoWhitespaceIndex(s, st.out.restEnd), st.out, num, TRUE)

parseDim(d, s, strip, num) ==
    LET end0 == trimEndJotoWhitespaceIndex(s, Len(s))
    IN  IF end0 = 0 THEN result(Null, strip, num)
        ELSE strippedFast(d, s, stripUnitAt(d, s, end0, strip), num)

parseAs(d, s, u, strip, num) ==
    LET end0 == trimEndJotoWhitespaceIndex(s, Len(s))
    IN  IF end0 = 0 THEN result(Null, strip, num)
        ELSE quantityFast(unitOf(d, u), s, end0, strip, num, FALSE)

(***************************************************************************)
(* Formatting.  A quantity to format is a number, written [neg, mag]: mag  *)
(* is the magnitude of an integer, or a number that is no integer; a       *)
(* format is a record of the options, with the defaults filled in as       *)
(* formatDim fills them in.                                                *)
(***************************************************************************)
\* maxDecimalFractionDigits: null
NoLimit == -1

Min2(a, b) == IF a <= b THEN a ELSE b

\* String(n) as code units
digitsText(n) == LET ds == Digits(n) IN <<>> \o [i \in 1..Len(ds) |-> ds[i] + 48]

LengthDefaultFormat ==
    [maxDecimalFractionDigits |-> NoLimit, thousandsSeparator |-> <<>>,
     fracType |-> "whole", allowFracFallback |-> TRUE, mixed |-> TRUE,
     outputDeviceMode |-> "complex"]

\* mass and temperature formats have no fracType, allowFracFallback or mixed;
\* the record carries them so that one variable holds any format
PlainDefaultFormat ==
    [maxDecimalFractionDigits |-> NoLimit, thousandsSeparator |-> <<>>,
     fracType |-> "decimal", allowFracFallback |-> FALSE, mixed |-> FALSE,
     outputDeviceMode |-> "complex"]

defaultFormat(d) == IF d = "length" THEN LengthDefaultFormat ELSE PlainDefaultFormat

LengthAbbr(u) ==
    CASE u = "Iota" -> <<105, 111>>
      [] u = "Foot" -> <<8242>>
      [] u = "Inch" -> <<8243>>
      [] u = "Yard" -> <<121, 100>>
      [] u = "Point" -> <<112, 116>>
      [] u = "Pica" -> <<112, 99>>
      [] u = "Nanometer" -> <<110, 109>>
      [] u = "Micrometer" -> <<181, 109>>
      [] u = "Millimeter" -> <<109, 109>>
      [] u = "Centimeter" -> <<99, 109>>
      [] u = "Decimeter" -> <<100, 109>>
      [] u = "Meter" -> <<109>>
      [] u = "Q" -> <<81>>
      [] OTHER -> <<>>

LengthAsciiAbbr(u) ==
    CASE u = "Iota" -> <<105, 111>>
      [] u = "Foot" -> <<39>>
      [] u = "Inch" -> <<34>>
      [] u = "Yard" -> <<121, 100>>
      [] u = "Point" -> <<112, 116>>
      [] u = "Pica" -> <<112, 99>>
      [] u = "Nanometer" -> <<110, 109>>
      [] u = "Micrometer" -> <<117, 109>>
      [] u = "Millimeter" -> <<109, 109>>
      [] u = "Centimeter" -> <<99, 109>>
      [] u = "Decimeter" -> <<100, 109>>
      [] u = "Meter" -> <<109>>
      [] u = "Q" -> <<81>>
      [] OTHER -> <<>>

MassAbbr(u) ==
    CASE u = "Whit" -> <<119, 116>>
      [] u = "Microgram" -> <<181, 103>>
      [] u = "Milligram" -> <<109, 103>>
      [] u = "Gram" -> <<103>>
      [] u = "Kilogram" -> <<107, 103>>
      [] u = "Megagram" -> <<116>>
      [] u = "Dram" -> <<100, 114>>
      [] u = "Ounce" -> <<111, 122>>
      [] u = "Pound" -> <<108, 98>>
      [] u = "Stone" -> <<115, 116>>
      [] u = "LongHundredweight" -> <<99, 119, 116, 46, 108>>
      [] u = "LongTon" -> <<116, 110, 46, 108>>
      [] u = "ShortHundredweight" -> <<99, 119, 116>>
      [] u = "ShortTon" -> <<116, 110>>
      [] u = "Grain" -> <<103, 114>>
      [] u = "Pennyweight" -> <<100, 119, 116>>
      [] u = "TroyOunce" -> <<111, 122, 116>>
      [] OTHER -> <<>>

MassAsciiAbbr(u) ==
    CASE u = "Whit" -> <<119, 116>>
      [] u = "Microgram" -> <<117, 103>>
      [] u = "Milligram" -> <<109, 103>>
      [] u = "Gram" -> <<103>>
      [] u = "Kilogram" -> <<107, 103>>
      [] u = "Megagram" -> <<116>>
      [] u = "Dram" -> <<100, 114>>
      [] u = "Ounce" -> <<111, 122>>
      [] u = "Pound" -> <<108, 98>>
      [] u = "Stone" -> <<115, 116>>
      [] u = "LongHundredweight" -> <<99, 119, 116, 95, 108>>
      [] u = "LongTon" -> <<116, 110, 95, 108>>
      [] u = "ShortHundredweight" -> <<99, 119, 116>>
      [] u = "ShortTon" -> <<116, 110>>
      [] u = "Grain" -> <<103, 114>>
      [] u = "Pennyweight" -> <<100, 119, 116>>
      [] u = "TroyOunce" -> <<111, 122, 116>>
      [] OTHER -> <<>>

TemperatureAbbr(u) ==
    CASE u = "Smidge" -> <<115, 100>>
      [] u = "Millikelvin" -> <<109, 75>>
      [] u = "Kelvin" -> <<75>>
      [] u = "ThousandthRankine" -> <<109, 176, 82>>
      [] u = "Rankine" -> <<176, 82>>
      [] u = "Celsius" -> <<176, 67>>
      [] u = "Fahrenheit" -> <<176, 70>>
      [] OTHER -> <<>>

TemperatureAsciiAbbr(u) ==
    CASE u = "Smidge" -> <<115, 100>>
      [] u = "Millikelvin" -> <<109, 75>>
      [] u = "Kelvin" -> <<75>>
      [] u = "ThousandthRankine" -> <<109, 82>>
      [] u = "Rankine" -> <<82>>
      [] u = "Celsius" -> <<67>>
      [] u = "Fahrenheit" -> <<70>>
      [] OTHER -> <<>>

abbr(d, u) ==
    CASE d = "length" -> LengthAbbr(u)
      [] d = "mass" -> MassAbbr(u)
      [] d = "temperature" -> TemperatureAbbr(u)

asciiAbbr(d, u) ==
    CASE d = "length" -> LengthAsciiAbbr(u)
      [] d = "mass" -> MassAsciiAbbr(u)
      [] d = "temperature" -> TemperatureAsciiAbbr(u)

\* the formatters of length and mass keep their own copies of the two tables
LengthFormatMaxDecimalDigits(u) ==
    CASE u \in {"Inch", "Pica", "Yard", "Foot"} -> 5
      [] u = "Meter" -> 9
      [] u = "Decimeter" -> 8
      [] u = "Centimeter" -> 7
      [] u = "Millimeter" -> 6
      [] u = "Q" -> 4
      [] u \in {"Micrometer", "Point"} -> 3
      [] OTHER -> 0

MassFormatMaxDecimalDigits(u) ==
    CASE u = "Microgram" -> 2
      [] u = "Milligram" -> 5
      [] u = "Gram" -> 8
      [] u = "Kilogram" -> 11
      [] u = "Megagram" -> 14
      [] u \in {"Ounce", "Pound", "Stone", "LongHundredweight"} -> 3
      [] u = "LongTon" -> 4
      [] u = "ShortHundredweight" -> 5
      [] u = "ShortTon" -> 6
      [] u = "TroyOunce" -> 1
      [] OTHER -> 0

formatMaxDecimalDigits(d, u) ==
    CASE d = "length" -> LengthFormatMaxDecimalDigits(u)
      [] d = "mass" -> MassFormatMaxDecimalDigits(u)
      [] d = "temperature" -> TemperatureMaxDecimalDigits(u)

\* a unit as the formatters use it: its name and what the formatter's lookup
\* functions return for it
formatUnitWith(d, u, unitScale, digits) ==
    [domain |-> d, name |-> u, scale |-> unitScale, maxDecimalDigits |-> digits,
     leastSignificantDigitValue |->
         IF d = "temperature" THEN TemperatureLeastSignificantDigitValue(u)
         ELSE ScaledLeastSignificantDigitValue(unitScale, digits),
     abbr |-> abbr(d, u), asciiAbbr |-> asciiAbbr(d, u)]

formatUnitOf(d, u) == formatUnitWith(d, u, scale(d, u), formatMaxDecimalDigits(d, u))

\* for (let i = s.length; i > 0; i -= 3) { ... }
RECURSIVE formatWholeLoop(_, _, _, _)
formatWholeLoop(s, i, out, thousandsSeparator) ==
    IF i > 0 /\ Evaluated(out)
    THEN LET start == IF i - 3 > 0 THEN i - 3 ELSE 0
             chunk == SubSeq(s, start + 1, i)
         IN  formatWholeLoop(s, i - 3,
                 IF out # <<>> THEN chunk \o thousandsSeparator \o out ELSE chunk,
                 thousandsSeparator)
    ELSE out

\* thousandsSeparator: <<>> is null (or the empty string)
formatWhole(n, thousandsSeparator) ==
    IF n = Zero THEN <<48>>
    ELSE IF thousandsSeparator = <<>> THEN digitsText(n)
    ELSE formatWholeLoop(digitsText(n), DigitCount(n), <<>>, thousandsSeparator)

\* a fraction written without padStart: its leading zeros are lost
unpaddedFractionDigits(n, numDigits) == trimTrailingAsciiZeroes(digitsText(n))

\* String(n).padStart(numDigits, "0").replace(/0+$/u, "")
paddedFractionDigits(n, numDigits) ==
    trimTrailingAsciiZeroes([i \in 1..(numDigits - DigitCount(n)) |-> 48] \o digitsText(n))

\* formatDecimalFraction, after q was reduced modulo 10 ** numDigits
fractionWithExcess(remainder, lsd, numDigits, ex) ==
    IF ex.quo # Zero
    THEN [text |-> <<>>, remainder |-> BAdd(remainder, BMul(ex.quo, lsd))]
    ELSE [text |-> <<46>> \o paddedFractionDigits(ex.rem, numDigits), remainder |-> remainder]

\* formatDecimalFraction, after the division of rem by lsd
fractionOfQuotient(dm, lsd, numDigits) ==
    IF dm.quo = Zero THEN [text |-> <<>>, remainder |-> dm.rem]
    ELSE IF DigitCount(dm.quo) > numDigits
    THEN fractionWithExcess(dm.rem, lsd, numDigits, DivMod(dm.quo, Pow10(numDigits)))
    ELSE [text |-> <<46>> \o paddedFractionDigits(dm.quo, numDigits), remainder |-> dm.rem]

formatDecimalFraction(rem, lsd, maxPlaces) == fractionOfQuotient(DivMod(rem, lsd), lsd, maxPlaces)

\* formatDecimalFracForUnit, after lsd was scaled to the places kept
fractionForPlaces(rem, lsd, maxPlaces, fewer) ==
    IF fewer /\ BMod(rem, lsd) # Zero
    THEN [text |-> <<>>, remainder |-> rem]
    ELSE formatDecimalFraction(rem, lsd, maxPlaces)

formatDecimalFracForUnit(rem, F, maxDecimalFractionDigits) ==
    LET places == F.maxDecimalDigits
        maxPlaces == IF maxDecimalFractionDigits = NoLimit THEN places
                     ELSE Min2(places, maxDecimalFractionDigits)
    IN  fractionForPlaces(rem,
            IF maxPlaces < places
            THEN BMul(F.leastSignificantDigitValue, Pow10(places - maxPlaces))
            ELSE F.leastSignificantDigitValue,
            maxPlaces, maxPlaces < places)

\* a count that finds no factor 2: the fraction stays in 64ths
noTrailingZeros(x) == 0

RECURSIVE trailingZeros32Loop(_, _)
trailingZeros32Loop(v, c) ==
    IF v % 2 = 0 /\ c < 32 THEN trailingZeros32Loop(v \div 2, c + 1) ELSE c

trailingZeros32(x) == trailingZeros32Loop(x, 0)

\* a quantity below 10^8 as a TLA+ integer
Small(a) == a[1] + BASE * a[2]

\* formatInchFrac, after the division of rem by minDiv
inchFractionOfQuotient(rem, dm, ascii, doSpace) ==
    LET quo == Small(dm.quo)
        tz == trailingZeros32(quo)
        mag == IF tz <= 5 THEN tz ELSE 5
        num == quo \div (2 ^ mag)
        space == IF doSpace THEN (IF ascii THEN <<32>> ELSE <<65279>>) ELSE <<>>
        slash == IF ascii THEN <<47>> ELSE <<8260>>
        denom == CASE mag = 5 -> <<50>>
                   [] mag = 4 -> <<52>>
                   [] mag = 3 -> <<56>>
                   [] mag = 2 -> <<49, 54>>
                   [] mag = 1 -> <<51, 50>>
                   [] mag = 0 -> <<54, 52>>
    IN  IF dm.quo = Zero \/ dm.rem # Zero \/ BLt(N(64), dm.quo)
        THEN [text |-> <<>>, remainder |-> rem]
        ELSE [text |-> space \o digitsText(N(num)) \o slash \o denom, remainder |-> Zero]

\* minDiv is Unit.Inch >> 6
formatInchFrac(rem, ascii, doSpace) ==
    inchFractionOfQuotient(rem, DivMod(rem, BDiv(INCH, N(64))), ascii, doSpace)

withWholeFrac(r, wholeFrac) ==
    [text |-> r.text, remainder |-> r.remainder, wholeFrac |-> wholeFrac]

\* the preferred candidate, whatever it leaves
preferredInchFrac(fracType, allowFracFallback, inch, decimal) ==
    IF fracType = "whole" THEN withWholeFrac(inch, TRUE) ELSE withWholeFrac(decimal, FALSE)

\* chooseInchFrac, given the two candidates; a candidate is computed when
\* this first looks at it
chosenInchFrac(fracType, allowFracFallback, inch, decimal) ==
    IF fracType = "whole"
    THEN IF ~allowFracFallback \/ inch.remainder = Zero THEN withWholeFrac(inch, TRUE)
         ELSE IF BLt(decimal.remainder, inch.remainder) THEN withWholeFrac(decimal, FALSE)
         ELSE withWholeFrac(inch, TRUE)
    ELSE IF ~allowFracFallback \/ decimal.remainder = Zero THEN withWholeFrac(decimal, FALSE)
         ELSE IF BLt(inch.remainder, decimal.remainder) THEN withWholeFrac(inch, TRUE)
         ELSE withWholeFrac(decimal, FALSE)

chooseInchFrac(rem, wholeHasDigits, fracType, allowFracFallback, ascii, maxPlaces) ==
    chosenInchFrac(fracType, allowFracFallback,
                   formatInchFrac(rem, ascii, wholeHasDigits),
                   formatDecimalFracForUnit(rem, formatUnitOf("length", "Inch"), maxPlaces))

startsWithDot(t) == Len(t) > 0 /\ t[1] = 46

\* `${negative ? sign : ""}${whole}${fracText}${abbr}`
formatText(negative, whole, fracText, F, ascii) ==
    IF ascii
    THEN (IF negative THEN <<45>> ELSE <<>>) \o whole \o fracText \o F.asciiAbbr
    ELSE (IF negative THEN <<8722>> ELSE <<>>) \o whole \o fracText \o F.abbr

\* quo === 0 && rem === 0 ? "0" : (quo !== 0 ? formatWhole(quo, thousandsSeparator) : "")
wholeText(dm, thousandsSeparator) ==
    IF dm.quo = Zero /\ dm.rem = Zero THEN <<48>>
    ELSE IF dm.quo # Zero THEN formatWhole(dm.quo, thousandsSeparator)
    ELSE <<>>

\* the whole part once the fraction is known; decimalFrac is false for an
\* inch fraction
wholeFinal(whole, fracText, decimalFrac) ==
    IF decimalFrac /\ Len(whole) = 0 /\ startsWithDot(fracText) THEN <<48>>
    ELSE IF Len(whole) = 0 /\ Len(fracText) = 0 THEN <<48>>
    ELSE whole

\* a result that reports every text as exact
remainderUnreported(negative, F, ascii, whole, frac) ==
    [text |-> formatText(negative, wholeFinal(whole, frac.text, TRUE), frac.text, F, ascii),
     exact |-> TRUE]

\* formatDim of mass and temperature, after the fraction was formatted
formatWithFraction(negative, F, ascii, whole, frac) ==
    [text |-> formatText(negative, wholeFinal(whole, frac.text, TRUE), frac.text, F, ascii),
     exact |-> frac.remainder = Zero]

\* formatDim of mass and temperature, after the division by the unit
formatQuotient(negative, F, format, dm) ==
    formatWithFraction(negative, F, format.outputDeviceMode = "ascii",
        wholeText(dm, format.thousandsSeparator),
        formatDecimalFracForUnit(dm.rem, F, format.maxDecimalFractionDigits))

\* formatDim of mass and temperature, from the sign and magnitude of what is written
formatMagnitude(negative, mag, F, format) ==
    formatQuotient(negative, F, format, DivMod(mag, F.scale))

MassFormatDim(quantity, u, format) ==
    formatMagnitude(quantity.neg, quantity.mag, formatUnitOf("mass", u), format)

\* The Number a sum or difference below 2 ** 54 becomes: up to 2 ** 53 the integer
\* itself, above it the nearest even integer, and of two equally near ones the
\* multiple of 4 (round to nearest, ties to even)
toNumber(n) ==
    IF BLe(n, BAdd(MAX_SAFE_INTEGER, N(1))) \/ BMod(n, N(2)) = Zero THEN n
    ELSE IF BMod(BAdd(n, N(1)), N(4)) = Zero THEN BAdd(n, N(1))
    ELSE BSub(n, N(1))

\* |quantity - origin| as an integer (origin >= 0)
deltaMagnitude(quantity, origin) ==
    IF quantity.neg THEN BAdd(quantity.mag, origin)
    ELSE IF BLt(quantity.mag, origin) THEN BSub(origin, quantity.mag)
    ELSE BSub(quantity.mag, origin)

\* delta = q - origin, as sign and magnitude
TemperatureFormatDim(quantity, u, format) ==
    LET origin == originOffset(u)
    IN  formatMagnitude(
            IF quantity.neg THEN quantity.mag # Zero \/ origin # Zero
            ELSE BLt(quantity.mag, origin),
            toNumber(deltaMagnitude(quantity, origin)),
            formatUnitOf("temperature", u), format)

\* formatDim of length, after the fraction was chosen
LengthFormatChosen(negative, F, ascii, whole, chosen) ==
    [text |-> formatText(negative, wholeFinal(whole, chosen.text, ~chosen.wholeFrac),
                         chosen.text, F, ascii),
     exact |-> chosen.remainder = Zero]

\* formatDim of length, from the whole text on
LengthFormatFraction(negative, format, finalUnit, whole, rem) ==
    LengthFormatChosen(negative, formatUnitOf("length", finalUnit),
        format.outputDeviceMode = "ascii", whole,
        IF finalUnit = "Inch"
        THEN chooseInchFrac(rem, Len(whole) > 0, format.fracType, format.allowFracFallback,
                            format.outputDeviceMode = "ascii", format.maxDecimalFractionDigits)
        ELSE withWholeFrac(formatDecimalFracForUnit(rem, formatUnitOf("length", finalUnit),
                                                    format.maxDecimalFractionDigits),
                           FALSE))

\* the quantity written in the unit alone, never as a compound
unitAlone(negative, format, u, dm, inf) ==
    LengthFormatFraction(negative, format, u, wholeText(dm, format.thousandsSeparator), dm.rem)

\* formatDim of length, after the divisions by the unit (dm) and, of its
\* remainder, by the inferior unit (inf)
LengthFormatCompound(negative, format, u, dm, inf) ==
    LET compound == format.mixed /\ inferior(u) # None /\ dm.rem # Zero /\ inf.quo # Zero
        abbrOfUnit == IF format.outputDeviceMode = "ascii" THEN asciiAbbr("length", u)
                      ELSE abbr("length", u)
        left == IF dm.quo # Zero
                THEN formatWhole(dm.quo, format.thousandsSeparator) \o abbrOfUnit
                ELSE <<>>
    IN  LengthFormatFraction(negative, format,
            IF compound THEN inferior(u) ELSE u,
            IF compound THEN left \o formatWhole(inf.quo, format.thousandsSeparator)
            ELSE wholeText(dm, format.thousandsSeparator),
            IF compound THEN inf.rem ELSE dm.rem)

\* formatDim of length, after the division by the unit
LengthFormatQuotient(negative, format, u, dm) ==
    LengthFormatCompound(negative, format, u, dm,
        DivMod(dm.rem, LengthUnit[IF inferior(u) # None THEN inferior(u) ELSE u]))

\* formatDim of length, once the unit is settled
LengthFormatUnit(quantity, format, u) ==
    LengthFormatQuotient(quantity.neg, format, u, DivMod(quantity.mag, LengthUnit[u]))

LengthFormatDim(quantity, unitArg, format) ==
    LengthFormatUnit(quantity, format,
        IF format.mixed /\ quantity.mag # Zero /\ BLt(quantity.mag, LengthUnit[unitArg])
           /\ inferior(unitArg) # None
        THEN inferior(unitArg) ELSE unitArg)

\* numbers that are not integers: NaN, an infinity, and a number with a fraction
NotANumber == <<-2>>
Infinite == <<-3>>
Fractional == <<-4>>

\* a guard that lets every integer pass
anyInteger(n) == Len(n.mag) = 5

\* assertSafeInt(n) returns (TRUE), or throws the RangeError (FALSE):
\* Number.isSafeInteger(n) is an integer of magnitude at most 2^53 - 1
assertSafeInt(n) == Len(n.mag) = 5 /\ BLe(n.mag, MAX_SAFE_INTEGER)

\* what a call that threw leaves: new RangeError("q must be a safe integer")
RangeError == [raised |-> "RangeError"]

Raised(r) == "raised" \in DOMAIN r

formatDim(d, quantity, u, format) ==
    IF ~assertSafeInt(quantity) THEN RangeError
    ELSE CASE d = "length" -> LengthFormatDim(quantity, u, format)
           [] d = "mass" -> MassFormatDim(quantity, u, format)
           [] d = "temperature" -> TemperatureFormatDim(quantity, u, format)

(***************************************************************************)
(* State machine.  A caller holds either a quantity to format or a text to *)
(* parse.  formatDim returns a text, which the caller then hands to the    *)
(* parsers; each parser call runs to completion and leaves its result and  *)
(* the module's scratch objects behind.                                    *)
(***************************************************************************)
\* no quantity: the caller starts from a text
NoQuantity == [neg |-> FALSE, mag |-> Null]

\* the caller did not build the argument from parts.  The parts of a text are
\* written in this order: sign, sup and supTail (the whole count and the suffix of
\* a superior quantity), gap, whole, a decimal fraction (frac, then zeros trailing
\* zeros) or a rational one (join, num, slash, den; the slash is / when none is
\* named), and tail (the unit suffix).
\* plain and supPlain are whole and sup without their grouping separators; before
\* is the unit supTail is a suffix of, when it is not the superior unit
NoParts ==
    [sign |-> <<>>, sup |-> <<>>, supPlain |-> <<>>, supTail |-> <<>>, before |-> None,
     gap |-> <<>>,
     whole |-> <<>>, plain |-> <<>>, frac |-> <<>>, zeros |-> 0,
     join |-> <<>>, num |-> 0, slash |-> <<>>, den |-> 0, tail |-> <<>>]

\* const _stripScratch = { restEnd: 0, unit: 0 }
InitStripScratch == [restEnd |-> 0, unit |-> None]

\* const _numScratch = { restEnd: 0, value: 0 } (temperature: hadFrac: false)
InitNumScratch(d) ==
    IF d = "temperature"
    THEN [restEnd |-> 0, value |-> Zero, hadFrac |-> FALSE]
    ELSE [restEnd |-> 0, value |-> Zero]

\* no call is entered while another one runs
NoCalls == [call |-> <<>>, stack |-> <<>>]

\* the state after the modules are loaded, with the calls that will be entered
StartEntering(d, a, u, quantity, format, parts, s, entered) ==
    /\ dom = d
    /\ api = a
    /\ unit = u
    /\ q = quantity
    /\ opts = format
    /\ given = parts
    /\ text = s
    /\ fmt = [text |-> <<>>, exact |-> FALSE]
    /\ fast = Null
    /\ diag = err("Empty", 0, None)
    /\ stripScratch = InitStripScratch
    /\ numScratch = InitNumScratch(d)
    /\ calls = {}
    /\ inflight = entered

\* the state after the modules are loaded and the caller chose its arguments
Start(d, a, u, quantity, format, parts, s) ==
    StartEntering(d, a, u, quantity, format, parts, s, NoCalls)

\* the text argument exists: given, or returned by formatDim
TextReady == IF q.mag = Null THEN TRUE ELSE "formatDim" \in calls /\ ~Raised(fmt)

FormatDim ==
    /\ q.mag # Null
    /\ "formatDim" \notin calls
    /\ fmt' = formatDim(dom, q, unit, opts)
    /\ text' = IF Raised(fmt') THEN text ELSE fmt'.text
    /\ calls' = calls \cup {"formatDim"}
    /\ UNCHANGED <<dom, api, unit, q, opts, given, fast, diag, stripScratch, numScratch, inflight>>

\* a fast parser returned r
ReturnFast(r) ==
    /\ fast' = r.ret
    /\ stripScratch' = r.strip
    /\ numScratch' = r.num

\* a diagnostic parser returned r
ReturnDiagnostic(r) ==
    /\ diag' = r.res
    /\ stripScratch' = r.strip

ParseDim ==
    /\ api = "dim"
    /\ TextReady
    /\ "parseDim" \notin calls
    /\ ReturnFast(parseDim(dom, text, stripScratch, numScratch))
    /\ calls' = calls \cup {"parseDim"}
    /\ UNCHANGED <<dom, api, unit, q, opts, given, text, fmt, diag, inflight>>

ParseDimDiagnostic ==
    /\ api = "dim"
    /\ TextReady
    /\ "parseDimDiagnostic" \notin calls
    /\ ReturnDiagnostic(parseDimDiagnostic(dom, text, stripScratch))
    /\ calls' = calls \cup {"parseDimDiagnostic"}
    /\ UNCHANGED <<dom, api, unit, q, opts, given, text, fmt, fast, numScratch, inflight>>

ParseAs ==
    /\ api = "as"
    /\ TextReady
    /\ "parseAs" \notin calls
    /\ ReturnFast(parseAs(dom, text, unit, stripScratch, numScratch))
    /\ calls' = calls \cup {"parseAs"}
    /\ UNCHANGED <<dom, api, unit, q, opts, given, text, fmt, diag, inflight>>

ParseAsDiagnostic ==
    /\ api = "as"
    /\ TextReady
    /\ "parseAsDiagnostic" \notin calls
    /\ ReturnDiagnostic(parseAsDiagnostic(dom, text, unit, stripScratch))
    /\ calls' = calls \cup {"parseAsDiagnostic"}
    /\ UNCHANGED <<dom, api, unit, q, opts, given, text, fmt, fast, numScratch, inflight>>

\* the parse call of the fast path, and of the diagnostic path, has returned
Parsed == "parseDim" \in calls \/ "parseAs" \in calls
Diagnosed == "parseDimDiagnostic" \in calls \/ "parseAsDiagnostic" \in calls
Formatted == "formatDim" \in calls

(***************************************************************************)
(* Inputs.  The quantities and texts the callers below start from are      *)
(* drawn from bounded families that reach the small cases, the powers of   *)
(* ten, and the values next to the limits.                                 *)
(***************************************************************************)
\* quantities 0..SmallCount are taken one by one
SmallCount == 2
\* the NearCount + 1 values just below (or above) a limit are taken one by one
NearCount == 1

Quantity(mag) == [neg |-> FALSE, mag |-> mag]
Negative(mag) == [neg |-> TRUE, mag |-> mag]

\* p - (j + 1), for p > j
Below(p, j) == IF BLt(N(j), p) THEN BSub(p, N(j + 1)) ELSE Zero

\* the digits 1 2 3 ... as one number of len digits
Staircase(len) == FromDigits([i \in 1..len |-> i % 10])

\* sample of the naturals below 10^digits
CountsBelowPow10(digits) ==
    {k \in {N(i) : i \in 0..SmallCount}
           \cup {Pow10(e) : e \in 0..Max2(digits - 1, 0)}
           \cup {Below(Pow10(digits), j) : j \in 0..NearCount}
           \cup {Staircase(digits)} :
        BLt(k, Pow10(digits))}

(***************************************************************************)
(* Specification LsdSpec: a caller formats k least-significant-digit       *)
(* values of a unit with the default options and parses the text.          *)
(***************************************************************************)
LsdInit ==
    \E d \in Domains :
        \E u \in UnitsOf(d) :
            \E k \in CountsBelowPow10(maxDecimalDigits(d, u)) :
                Start(d, "dim", u, Quantity(BMul(k, leastSignificantDigitValue(d, u))),
                      defaultFormat(d), NoParts, <<>>)

RoundTripNext == FormatDim \/ ParseDim

LsdSpec == LsdInit /\ [][RoundTripNext]_vars

\* C1: every multiple k * leastSignificantDigitValue(u), 0 <= k < 10^maxDecimalDigits(u),
\* is formatted with exact = true under the default options, and parseDim of the
\* text returns the quantity formatted
C1_LsdMultiplesRoundTrip ==
    /\ Formatted => fmt.exact
    /\ Formatted /\ Parsed => fast = q.mag

\* a Megagram quantity with all fourteen fraction digits 9 was formatted and parsed back
C1_Witness ==
    /\ Formatted /\ Parsed
    /\ unit = "Megagram"
    /\ q.mag = BMul(Below(Pow10(14), 0), leastSignificantDigitValue("mass", "Megagram"))
    /\ fast = q.mag
    /\ Len(text) = 17

(***************************************************************************)
(* Specification LengthTripSpec: a caller formats a length in any unit     *)
(* with mixed units and fraction fallback enabled, in either fracType and  *)
(* either output device mode, and parses the text.                         *)
(***************************************************************************)
\* feet, inches and sixty-fourths of an inch the compound lengths are made of
FeetCounts == {0, 1, 32}
InchCounts == {0, 1, 11}
SixtyFourths == {0, 1, 34, 48, 63}

FeetAndInches(f, i, n) ==
    BAdd(BAdd(BMul(N(f), FOOT), BMul(N(i), INCH)), BMul(N(n), inchPlaceValue(64)))

CompoundLengths ==
    {FeetAndInches(f, i, n) : f \in FeetCounts, i \in InchCounts, n \in SixtyFourths}

\* whole counts of a unit the quantities are made of
WholeCounts == {N(i) : i \in 0..SmallCount} \cup {N(1234)}

\* w units and k least significant digit values, and the quantities next to them
NearMultiples(unitScale, lsd, digits) ==
    {BAdd(BAdd(BMul(w, unitScale), BMul(k, lsd)), N(c)) :
        w \in WholeCounts, k \in CountsBelowPow10(digits), c \in 0..NearCount}

\* the largest quantities
LargestQuantities == {Below(MAX_SAFE_INTEGER, j) : j \in 0..NearCount} \cup {MAX_SAFE_INTEGER}

LengthQuantities(u) ==
    NearMultiples(scale("length", u), leastSignificantDigitValue("length", u),
                  maxDecimalDigits("length", u))
        \cup CompoundLengths \cup LargestQuantities

MixedFormats ==
    {[LengthDefaultFormat EXCEPT !.fracType = t, !.outputDeviceMode = m] :
        t \in {"whole", "decimal"}, m \in {"complex", "ascii"}}

LengthTripInit ==
    \E u \in LengthUnits :
        \E mag \in LengthQuantities(u) :
            \E format \in MixedFormats :
                Start("length", "dim", u, Quantity(mag), format, NoParts, <<>>)

LengthTripSpec == LengthTripInit /\ [][RoundTripNext]_vars

\* C2: for a length 0 <= q <= 2^53-1 formatted in any length unit with mixed units and
\* fraction fallback enabled, in either fracType, a result with exact = true has a text
\* that parseDim reads back as q (compound foot and inch texts and inch rational
\* fractions included)
C2_LengthRoundTrip == Formatted /\ Parsed /\ fmt.exact => fast = q.mag

\* 32 feet 11 1/64 inches were formatted as a compound with a rational fraction
\* and parsed back
C2_Witness ==
    /\ Formatted /\ Parsed /\ fmt.exact
    /\ unit = "Foot"
    /\ q.mag = FeetAndInches(32, 11, 1)
    /\ text = <<51, 50, 8242, 49, 49, 65279, 49, 8260, 54, 52, 8243>>
    /\ fast = q.mag

(***************************************************************************)
(* Specification FormatSpec: a caller formats a quantity of either sign in *)
(* any unit under a choice of format options, and parses the text.         *)
(***************************************************************************)
\* thousandsSeparator values: none, the two the parsers skip inside a run of
\* digits (comma, U+2008), and two other code points (full stop, space)
GroupingSeparators == {<<>>, <<44>>, <<8200>>}
Separators == GroupingSeparators \cup {<<46>>, <<32>>}

\* w units and k least significant digit values, and the integer after them
FormatMagnitudes(unitScale, lsd, digits) ==
    {mag \in {BAdd(BAdd(BMul(w, unitScale), BMul(k, lsd)), N(c)) :
                 w \in {Zero, N(1), N(1234567)},
                 k \in {Zero, Staircase(digits)},
                 c \in {0, 1}} :
        BLe(mag, MAX_SAFE_INTEGER)}

FormatQuantities(d, u) ==
    LET mags == FormatMagnitudes(scale(d, u), leastSignificantDigitValue(d, u),
                                 maxDecimalDigits(d, u))
    IN  {Quantity(mag) : mag \in mags} \cup {Negative(mag) : mag \in mags \ {Zero}}

FormatSamples(d) ==
    {[defaultFormat(d) EXCEPT !.thousandsSeparator = s, !.maxDecimalFractionDigits = m] :
        s \in Separators, m \in {NoLimit, 2}}
    \cup (IF d = "length"
          THEN {[LengthDefaultFormat EXCEPT !.thousandsSeparator = <<44>>, !.fracType = t,
                                            !.allowFracFallback = f, !.mixed = x] :
                   t \in {"whole", "decimal"}, f \in BOOLEAN, x \in BOOLEAN}
          ELSE {})

FormatInit ==
    \E d \in Domains :
        \E u \in UnitsOf(d) :
            \E quantity \in FormatQuantities(d, u) :
                \E format \in FormatSamples(d) :
                    Start(d, "dim", u, quantity, format, NoParts, <<>>)

FormatSpec == FormatInit /\ [][RoundTripNext]_vars

\* parseDim returned exactly the quantity that was formatted
ReparsedAsGiven == ~q.neg /\ fast = q.mag

\* C3 (as amended): for every safe integer q >= 0, every unit and every format with
\* thousandsSeparator none, comma or U+2008, formatDim(q, unit, options).exact is
\* true if and only if parseDim of the returned text is exactly q
C3_ExactIffReparsed ==
    Formatted /\ Parsed /\ ~q.neg /\ opts.thousandsSeparator \in GroupingSeparators
        => (fmt.exact <=> ReparsedAsGiven)

\* C3 (as stated): for every safe integer q, negative values included, and any
\* single code point as thousandsSeparator, exact is true if and only if parsing
\* the returned text yields exactly q
C3_AsStated == Formatted /\ Parsed => (fmt.exact <=> ReparsedAsGiven)

\* 1,234,567.123456 mm was formatted with the comma as thousandsSeparator, reported
\* exact and parsed back
C3_Witness ==
    /\ Formatted /\ Parsed /\ ~q.neg /\ fmt.exact
    /\ unit = "Millimeter"
    /\ opts.thousandsSeparator = <<44>>
    /\ Len(text) > 10 /\ text[2] = 44
    /\ fast = q.mag

(***************************************************************************)
(* Specification ParseSpec: a caller hands a text to the fast and to the   *)
(* diagnostic parser of a domain, either with a unit suffix (parseDim,     *)
(* parseDimDiagnostic) or for a unit it names (parseAs, parseAsDiagnostic).*)
(***************************************************************************)
\* 0 1 . , / space -
BodyAlphabet == {48, 49, 46, 44, 47, 32, 45}

\* every text of at most two code points of the alphabet
ShortBodies ==
    {<<>>} \cup {<<a>> : a \in BodyAlphabet} \cup {<<a, b>> : a, b \in BodyAlphabet}

\* longer texts: fractions, compounds, signs, separators, the limits
\*   1.0, .00, 1.5, 1.50, 1 1/2, 1/2, 1/3, 3/2
\*   0/2, 63/64, 1 /2, 1\ufeff1⁄2, 5'6, 5' 6, 5′6, 5 ft 6
\*   5 lb 8, 5lb8, 5m6, 5 kg 8, -1.5, +1, −1, -0
\*   1-1, 1,000, 1\u2008000, 9007199254740991, 9007199254740992, 99999999999999999, 1.123456789012345, 1.100
\*   x1, 1 x, K1, 1\xa0
NotedBodies ==
    {<<49, 46, 48>>,
     <<46, 48, 48>>,
     <<49, 46, 53>>,
     <<49, 46, 53, 48>>,
     <<49, 32, 49, 47, 50>>,
     <<49, 47, 50>>,
     <<49, 47, 51>>,
     <<51, 47, 50>>,
     <<48, 47, 50>>,
     <<54, 51, 47, 54, 52>>,
     <<49, 32, 47, 50>>,
     <<49, 65279, 49, 8260, 50>>,
     <<53, 39, 54>>,
     <<53, 39, 32, 54>>,
     <<53, 8242, 54>>,
     <<53, 32, 102, 116, 32, 54>>,
     <<53, 32, 108, 98, 32, 56>>,
     <<53, 108, 98, 56>>,
     <<53, 109, 54>>,
     <<53, 32, 107, 103, 32, 56>>,
     <<45, 49, 46, 53>>,
     <<43, 49>>,
     <<8722, 49>>,
     <<45, 48>>,
     <<49, 45, 49>>,
     <<49, 44, 48, 48, 48>>,
     <<49, 8200, 48, 48, 48>>,
     <<57, 48, 48, 55, 49, 57, 57, 50, 53, 52, 55, 52, 48, 57, 57, 49>>,
     <<57, 48, 48, 55, 49, 57, 57, 50, 53, 52, 55, 52, 48, 57, 57, 50>>,
     <<57, 57, 57, 57, 57, 57, 57, 57, 57, 57, 57, 57, 57, 57, 57, 57, 57>>,
     <<49, 46, 49, 50, 51, 52, 53, 54, 55, 56, 57, 48, 49, 50, 51, 52, 53>>,
     <<49, 46, 49, 48, 48>>,
     <<120, 49>>,
     <<49, 32, 120>>,
     <<75, 49>>,
     <<49, 160>>}

Bodies == ShortBodies \cup NotedBodies

ParseInit ==
    \E d \in Domains :
        \E body \in Bodies :
            \/ \E u \in UnitsOf(d) :
                   \/ Start(d, "dim", u, NoQuantity, defaultFormat(d), NoParts,
                            body \o asciiAbbr(d, u))
                   \/ Start(d, "as", u, NoQuantity, defaultFormat(d), NoParts, body)
            \/ Start(d, "dim", None, NoQuantity, defaultFormat(d), NoParts, body)

ParseNext == ParseDim \/ ParseDimDiagnostic \/ ParseAs \/ ParseAsDiagnostic

ParseSpec == ParseInit /\ [][ParseNext]_vars

\* C4: the fast and the diagnostic parser agree on every text: parseDim(s) is null
\* exactly when parseDimDiagnostic(s).ok is false, and otherwise equals
\* parseDimDiagnostic(s).value; likewise parseAs(s, u) and parseAsDiagnostic(s, u)
C4_FastAndDiagnosticAgree ==
    Parsed /\ Diagnosed => /\ fast = Null <=> ~diag.ok
                           /\ diag.ok => fast = diag.value

(***************************************************************************)
(* Texts made of parts.                                                    *)
(***************************************************************************)
DecimalText(p) ==
    IF p.frac # <<>> \/ p.zeros > 0 THEN <<46>> \o p.frac \o [i \in 1..p.zeros |-> 48] ELSE <<>>

RationalText(p) ==
    IF p.den # 0 \/ p.slash # <<>>
    THEN p.join \o digitsText(N(p.num)) \o (IF p.slash = <<>> THEN <<47>> ELSE p.slash)
             \o digitsText(N(p.den))
    ELSE <<>>

TextOf(p) ==
    p.sign \o p.sup \o p.supTail \o p.gap \o p.whole \o DecimalText(p) \o RationalText(p)
        \o p.tail

\* the caller hands over the text of the parts
StartParts(d, a, u, parts) ==
    Start(d, a, u, NoQuantity, defaultFormat(d), parts, TextOf(parts))

\* the caller of parseDim writes the unit suffix, the caller of parseAs names the unit
StartText(d, a, u, parts) ==
    StartParts(d, a, u, [parts EXCEPT !.tail = IF a = "dim" THEN asciiAbbr(d, u) ELSE <<>>])

\* the digits 1 2 ... 9 1 2 ..., len of them
DigitRun(len) == [i \in 1..len |-> 49 + ((i - 1) % 9)]

\* len - 1 zeros and a one: one unit of the place len
LowestPlace(len) == [i \in 1..len |-> IF i = len THEN 49 ELSE 48]

\* the value of a run of ASCII digits
ValueOf(digits) == FromDigits([i \in 1..Len(digits) |-> digits[i] - 48])

\* a sign is written before a relative temperature only
SignsOf(d, u) == IF d = "temperature" /\ originOffset(u) # Zero THEN {<<>>, <<45>>} ELSE {<<>>}

(***************************************************************************)
(* Specification PrecisionSpec: a caller parses decimal quantities whose   *)
(* fraction has one or two digits more than the unit holds, or is made of  *)
(* zeros only, with and without a whole part.                              *)
(***************************************************************************)
\* whole parts: none, 0, 2
ShortWholes == {<<>>, <<48>>, <<50>>}

LongFractions(digits) ==
    {DigitRun(k) : k \in (digits + 1)..(digits + 2)}
        \cup {LowestPlace(k) : k \in (digits + 1)..(digits + 2)}

PrecisionParts(d, u) ==
    {p \in {[NoParts EXCEPT !.sign = sg, !.whole = w, !.plain = w, !.frac = f, !.zeros = z] :
                sg \in SignsOf(d, u), w \in ShortWholes,
                f \in LongFractions(maxDecimalDigits(d, u)) \cup {<<>>},
                z \in 0..SmallCount} :
        p.frac # <<>> \/ p.zeros > 0}

PrecisionInit ==
    \E d \in Domains :
        \E u \in UnitsOf(d) :
            \E a \in {"dim", "as"} :
                \E parts \in PrecisionParts(d, u) :
                    StartText(d, a, u, parts)

PrecisionSpec == PrecisionInit /\ [][ParseNext]_vars

\* the fraction written has more significant digits than the unit holds
TooManyDigits == Len(given.frac) > maxDecimalDigits(dom, unit)

\* the fraction written consists of zeros
ZeroFraction == given.frac = <<>> /\ given.zeros > 0

\* C5: a quantity whose decimal fraction, trailing zeros trimmed, has more than
\* maxDecimalDigits(u) digits fails with TooPrecise in the diagnostic parser and
\* with null in the fast parser; a fraction consisting only of zeros is accepted
\* for every unit
C5_PrecisionLimit ==
    /\ Diagnosed /\ TooManyDigits => ~diag.ok /\ diag.code = "TooPrecise"
    /\ Parsed /\ TooManyDigits => fast = Null
    /\ Diagnosed /\ ZeroFraction => diag.ok
    /\ Parsed /\ ZeroFraction => fast # Null

(***************************************************************************)
(* Specification DecimalSpec: a caller of parseDim writes a whole part, a  *)
(* fraction of at most maxDecimalDigits(u) digits, trailing zeros and the  *)
(* unit suffix.                                                            *)
(***************************************************************************)
Wholes == {<<48>>, <<50>>, <<49, 50, 51, 52>>}

\* fractions of 1, 2, digits - 1 and digits digits
HeldFractions(digits) ==
    {DigitRun(k) : k \in {1, 2, digits - 1, digits} \cap 1..digits}
        \cup {LowestPlace(k) : k \in {1, 2, digits - 1, digits} \cap 1..digits}

DecimalParts(d, u) ==
    {[NoParts EXCEPT !.whole = w, !.plain = w, !.frac = f, !.zeros = z] :
        w \in Wholes, f \in HeldFractions(maxDecimalDigits(d, u)), z \in 0..SmallCount}

DecimalInit ==
    \E d \in Domains :
        \E u \in UnitsOf(d) :
            \E parts \in DecimalParts(d, u) :
                StartText(d, "dim", u, parts)

DecimalSpec == DecimalInit /\ [][ParseDim]_vars

\* W * scale(u) + D * (scale(u) / 10^k), for the whole part W and the k fraction
\* digits D written; with 10^k dividing scale(u), this times 10^k is
\* (W * 10^k + D) * scale(u)
WrittenValue ==
    BAdd(BMul(ValueOf(given.whole), scale(dom, unit)),
         BMul(ValueOf(given.frac), BDiv(scale(dom, unit), Pow10(Len(given.frac)))))

PlaceDividesScale == BMod(scale(dom, unit), Pow10(Len(given.frac))) = Zero

\* parseDim of the text written without the trailing zeros
WithoutZeros ==
    parseDim(dom, TextOf([given EXCEPT !.zeros = 0]), InitStripScratch, InitNumScratch(dom)).ret

\* C6 (as amended): an accepted decimal quantity "W.d1..dk" + suffix(u), k <= maxDecimalDigits(u),
\* is parsed exactly: parseDim of it, times 10^k, equals (W * 10^k + d1..dk) * scale(u)
\* + originOffset(u) * 10^k, and appending trailing zeros to the fraction does not
\* change the result
C6_DecimalExact ==
    Parsed /\ fast # Null
        => /\ PlaceDividesScale
           /\ fast = BAdd(WrittenValue, originOffset(unit))
           /\ fast = WithoutZeros

\* C6 (as stated): parseDim("W.d1..dk" + suffix(u)) * 10^k equals
\* (W * 10^k + d1..dk) * scale(u), and trailing zeros do not change the result
C6_AsStated ==
    Parsed /\ fast # Null
        => /\ PlaceDividesScale
           /\ fast = WrittenValue
           /\ fast = WithoutZeros

\* 2.1200°C was parsed as 273.15 K + 2.12 K
C6_Witness ==
    /\ Parsed
    /\ unit = "Celsius"
    /\ given.whole = <<50>> /\ given.frac = <<49, 50>> /\ given.zeros = 2
    /\ fast = N(24774300)

(***************************************************************************)
(* Specification GroupingSpec: a caller writes grouping separators between *)
(* the digits of a whole part (and of the superior whole part of a         *)
(* compound), with and without a decimal fraction after it.                *)
(***************************************************************************)
\* what is written between two digits: nothing, a comma, U+2008
Groupings == {<<>>, <<44>>, <<8200>>}

\* 1,234  1,000,000  1 U+2008 234,5  1, U+2008 ,2  1,,2
LongGroupedWholes ==
    {<<49, 44, 50, 51, 52>>, <<49, 44, 48, 48, 48, 44, 48, 48, 48>>,
     <<49, 8200, 50, 51, 52, 44, 53>>, <<49, 44, 8200, 44, 50>>, <<49, 44, 44, 50>>}

\* 12 and 123 with every grouping, and the long ones
GroupedWholes ==
    {<<49>> \o g \o <<50>> : g \in Groupings}
        \cup {<<49>> \o g \o <<50>> \o h \o <<51>> : g, h \in Groupings}
        \cup LongGroupedWholes

Ungrouped(w) == SelectSeq(w, LAMBDA c : c # 44 /\ c # 8200)

\* a superior whole part is written before the inferior units in parseDim
SuperiorWholes(d, u, a) ==
    IF a = "dim" /\ superior(d, u) # None
    THEN {<<>>, <<49, 44, 50>>, <<49, 8200, 48, 48, 48>>}
    ELSE {<<>>}

GroupingPartsOf(d, u, a, wholes, fractions) ==
    {[NoParts EXCEPT !.sup = s, !.supPlain = Ungrouped(s),
                     !.supTail = IF s = <<>> THEN <<>> ELSE asciiAbbr(d, superior(d, u)),
                     !.whole = w, !.plain = Ungrouped(w), !.frac = f] :
        s \in SuperiorWholes(d, u, a), w \in wholes, f \in fractions}

\* every grouped whole part alone, and the long ones with the fraction .5
GroupingParts(d, u, a) ==
    GroupingPartsOf(d, u, a, GroupedWholes, {<<>>})
        \cup GroupingPartsOf(d, u, a, LongGroupedWholes,
                             IF maxDecimalDigits(d, u) > 0 THEN {<<53>>} ELSE {})

GroupingInit ==
    \E d \in Domains :
        \E u \in UnitsOf(d) :
            \E a \in {"dim", "as"} :
                \E parts \in GroupingParts(d, u, a) :
                    StartText(d, a, u, parts)

GroupingSpec == GroupingInit /\ [][ParseNext]_vars

\* the text written without its grouping separators
PlainText == TextOf([given EXCEPT !.whole = given.plain, !.sup = given.supPlain])

PlainFast ==
    IF api = "dim" THEN parseDim(dom, PlainText, InitStripScratch, InitNumScratch(dom)).ret
    ELSE parseAs(dom, PlainText, unit, InitStripScratch, InitNumScratch(dom)).ret

PlainDiagnostic ==
    IF api = "dim" THEN parseDimDiagnostic(dom, PlainText, InitStripScratch).res
    ELSE parseAsDiagnostic(dom, PlainText, unit, InitStripScratch).res

\* two diagnostic results with the same value, or with the same error code
SameOutcome(a, b) ==
    /\ a.ok = b.ok
    /\ a.ok => a.value = b.value
    /\ ~a.ok => a.code = b.code

\* C7: grouping separators (ASCII comma, U+2008) inserted in any number at any
\* position between the digits of a whole part do not change the parse result, in
\* the three domains: the fast parsers return what they return for the text without
\* them, and the diagnostic parsers the same value or the same error code
C7_GroupingTransparent ==
    /\ Parsed => fast = PlainFast
    /\ Diagnosed => SameOutcome(diag, PlainDiagnostic)

\* "1,2,3m" was parsed by both parsers as 123 m
C7_Witness ==
    /\ Parsed /\ Diagnosed
    /\ api = "dim" /\ unit = "Meter"
    /\ given.whole = <<49, 44, 50, 44, 51>> /\ given.frac = <<>>
    /\ fast = BMul(N(123), METER)
    /\ diag.ok /\ diag.value = fast

(***************************************************************************)
(* Specification CompoundSpec: a caller of parseDim writes feet and inches *)
(* (the inches with a rational or a decimal fraction, or none), or pounds  *)
(* and ounces, with or without whitespace between the two quantities.      *)
(***************************************************************************)
\* counts of the superior unit: 0, 1, 32, 1234
SuperiorCounts == {<<48>>, <<49>>, <<51, 50>>, <<49, 50, 51, 52>>}

\* suffix pairs: ' and ", U+2032 and U+2033, ft and in after a space
LengthSuffixes ==
    {[sup |-> <<39>>, inf |-> <<34>>], [sup |-> <<8242>>, inf |-> <<8243>>],
     [sup |-> <<32, 102, 116>>, inf |-> <<32, 105, 110>>]}

\* lb and oz, bare and after a space
MassSuffixes ==
    {[sup |-> <<108, 98>>, inf |-> <<111, 122>>],
     [sup |-> <<32, 108, 98>>, inf |-> <<32, 111, 122>>]}

\* between the two quantities: nothing, a space, U+00A0
Gaps == {<<>>, <<32>>, <<160>>}

\* the denominators takeInchFrac accepts
InchDenominators == {2, 4, 8, 16, 32, 64}

\* the inch fractions 1/d and (d - 1)/d, after a space or U+FEFF
InchFractions ==
    {r \in [join : {<<32>>, <<65279>>}, num : 1..63, den : InchDenominators] :
        r.num = 1 \/ r.num = r.den - 1}

WithSuffixes(p, sfx) == [p EXCEPT !.supTail = sfx.sup, !.tail = sfx.inf]

FeetAndInchesParts ==
    {WithSuffixes([NoParts EXCEPT !.sup = f, !.supPlain = f, !.gap = g, !.whole = i,
                                  !.plain = i, !.join = r.join, !.num = r.num,
                                  !.den = r.den], sfx) :
        f \in SuperiorCounts, g \in Gaps, i \in {<<48>>, <<49>>, <<49, 49>>},
        r \in InchFractions, sfx \in LengthSuffixes}

\* an inferior quantity with a decimal fraction (.5) or none
DecimalCompoundParts(wholes, suffixes) ==
    {WithSuffixes([NoParts EXCEPT !.sup = f, !.supPlain = f, !.gap = g, !.whole = i,
                                  !.plain = i, !.frac = fr], sfx) :
        f \in SuperiorCounts, g \in Gaps, i \in wholes, fr \in {<<>>, <<53>>},
        sfx \in suffixes}

CompoundInit ==
    \/ \E parts \in FeetAndInchesParts \cup
                       DecimalCompoundParts({<<48>>, <<49>>, <<49, 49>>}, LengthSuffixes) :
           StartParts("length", "dim", "Inch", parts)
    \/ \E parts \in DecimalCompoundParts({<<48>>, <<49>>, <<49, 53>>}, MassSuffixes) :
           StartParts("mass", "dim", "Ounce", parts)

CompoundSpec == CompoundInit /\ [][ParseDim]_vars

\* n * (scale(u) / d) for the fraction n/d written, D * (scale(u) / 10^k) for
\* the k decimal digits D written
FractionWritten ==
    IF given.den # 0 THEN BMul(N(given.num), BDiv(scale(dom, unit), N(given.den)))
    ELSE BMul(ValueOf(given.frac), BDiv(scale(dom, unit), Pow10(Len(given.frac))))

\* F * FOOT + I * INCH + fraction, P * POUND + O * OUNCE + fraction
CompoundWritten ==
    BAdd(BAdd(BMul(ValueOf(given.sup), scale(dom, superior(dom, unit))),
              BMul(ValueOf(given.whole), scale(dom, unit))),
         FractionWritten)

\* C8: for whole numbers F and I and an optional inch fraction n/d (or decimal),
\* parseDim of F feet followed by I n/d inches is F * FOOT + I * INCH + n * (INCH / d);
\* parseDim of P lb O oz is P * POUND + O * OUNCE, with or without whitespace
\* between the two quantities
C8_CompoundComposition == Parsed => fast = CompoundWritten

\* 32'11 1/64" was parsed as 32 feet, 11 inches and a sixty-fourth
C8_Witness ==
    /\ Parsed
    /\ text = <<51, 50, 39, 49, 49, 32, 49, 47, 54, 52, 34>>
    /\ fast = BAdd(BAdd(BMul(N(32), FOOT), BMul(N(11), INCH)), BDiv(INCH, N(64)))

(***************************************************************************)
(* Specification InferiorSpec: a caller of parseDimDiagnostic writes       *)
(* inches or ounces with a whole part, and before them a text that ends in *)
(* the suffix of a unit other than feet or pounds, or in no suffix.        *)
(***************************************************************************)
\* what precedes the suffix written before the inferior quantity: nothing, 5, 5 space
BeforeSuffix == {<<>>, <<53>>, <<53, 32>>}

\* texts that end in no unit suffix of either domain: empty, x, 5 x, -, +, 5 (, m(
Unsuffixed ==
    {<<>>, <<120>>, <<53, 32, 120>>, <<45>>, <<43>>, <<53, 32, 40>>, <<109, 40>>}

\* the inferior quantities: 0 and 6, alone, with .5 and (inches) with 1/2
InferiorParts(d) ==
    {[NoParts EXCEPT !.whole = w, !.plain = w, !.frac = f] : w \in {<<48>>, <<54>>},
                                                             f \in {<<>>, <<53>>}}
        \cup (IF d = "length"
              THEN {[NoParts EXCEPT !.whole = w, !.plain = w, !.join = <<32>>, !.num = 1,
                                    !.den = 2] : w \in {<<48>>, <<54>>}}
              ELSE {})

\* the text before ends in a suffix of v, or in none (v is None)
PrecededParts(d, u, v) ==
    {[p EXCEPT !.sup = b, !.supPlain = b, !.supTail = sfx, !.before = v, !.gap = g,
               !.tail = asciiAbbr(d, u)] :
        p \in InferiorParts(d),
        b \in IF v = None THEN Unsuffixed ELSE BeforeSuffix,
        sfx \in IF v = None THEN {<<>>} ELSE {abbr(d, v), asciiAbbr(d, v)},
        g \in {<<>>, <<32>>}}

InferiorInit ==
    \E d \in {"length", "mass"} :
        \E u \in {w \in UnitsOf(d) : superior(d, w) # None} :
            \E v \in (UnitsOf(d) \ {superior(d, u)}) \cup {None} :
                \E parts \in PrecededParts(d, u, v) :
                    StartParts(d, "dim", u, parts)

InferiorSpec == InferiorInit /\ [][ParseDimDiagnostic]_vars

\* I * scale(u) and the fraction written
InferiorWritten == BAdd(BMul(ValueOf(given.whole), scale(dom, unit)), FractionWritten)

\* C9: after an inferior-unit quantity (Inch, Ounce) with a whole part, when the
\* remaining text, trailing whitespace trimmed, ends in a recognized unit suffix
\* other than the expected superior (Foot, Pound), parseDimDiagnostic fails with
\* InvalidCompound carrying the found and the expected unit; when it ends in no
\* recognized suffix, the value of the inferior quantity alone is the result
C9_InvalidCompound ==
    Diagnosed =>
        IF given.before # None
        THEN /\ ~diag.ok /\ diag.code = "InvalidCompound"
             /\ diag.found = given.before
             /\ diag.expected = superior(dom, unit)
        ELSE diag.ok /\ diag.value = InferiorWritten

\* "5 m 6 1/2"" failed with InvalidCompound, found Meter, expected Foot
C9_Witness ==
    /\ Diagnosed
    /\ text = <<53, 32, 109, 32, 54, 32, 49, 47, 50, 34>>
    /\ ~diag.ok /\ diag.code = "InvalidCompound"
    /\ diag.found = "Meter" /\ diag.expected = "Foot" /\ diag.inferior = "Inch"

(***************************************************************************)
(* Specification OverflowSpec: a caller writes quantities whose total is   *)
(* at, just below and just above the largest safe integer: whole counts    *)
(* next to the largest one the unit admits, with the fractions next to the *)
(* room that is left, and compounds next to the largest superior count.    *)
(***************************************************************************)
\* the largest total of whole count and fraction, once the origin is added
RoomOf(d, u) == BSub(MAX_SAFE_INTEGER, IF d = "temperature" THEN originOffset(u) ELSE Zero)

\* the largest whole count of a unit, and the counts next to it
LargestCount(room, unitScale) == BDiv(room, unitScale)

CountsNear(m) ==
    {Below(BAdd(m, N(1)), j) : j \in 0..NearCount} \cup {BAdd(m, N(j + 1)) : j \in 0..NearCount}

\* a count as text: plain, after two zeros, and followed by a zero
WholeTexts(m) ==
    {digitsText(c) : c \in CountsNear(m)}
        \cup {<<48, 48>> \o digitsText(m), digitsText(m) \o <<48>>}

\* c as a fraction of the given number of digits
FractionText(c, digits) == [i \in 1..digits |-> 48 + DigitAt(c, digits - i)]

\* the fractions next to what is left of the room after the largest whole count:
\* none, the largest that fits, the next one, and all nines
FractionsNear(left, lsd, digits) ==
    IF digits = 0 THEN {<<>>}
    ELSE {<<>>, FractionText(BDiv(left, lsd), digits), [i \in 1..digits |-> 57]}
             \cup (IF BLt(BAdd(BDiv(left, lsd), N(1)), Pow10(digits))
                   THEN {FractionText(BAdd(BDiv(left, lsd), N(1)), digits)}
                   ELSE {})

SingleOverflowParts(d, u) ==
    {[NoParts EXCEPT !.whole = w, !.plain = w, !.frac = f] :
        w \in WholeTexts(LargestCount(RoomOf(d, u), scale(d, u))),
        f \in FractionsNear(BMod(RoomOf(d, u), scale(d, u)), leastSignificantDigitValue(d, u),
                            maxDecimalDigits(d, u))}

\* a superior count next to the largest, and an inferior count next to the largest
\* that fits after it
CompoundOverflowParts(d, u, sup) ==
    {[NoParts EXCEPT !.sup = digitsText(s), !.supPlain = digitsText(s),
                     !.supTail = asciiAbbr(d, sup), !.whole = digitsText(w),
                     !.plain = digitsText(w), !.frac = f] :
        s \in CountsNear(LargestCount(MAX_SAFE_INTEGER, scale(d, sup))),
        w \in CountsNear(LargestCount(BMod(MAX_SAFE_INTEGER, scale(d, sup)), scale(d, u))),
        f \in {<<>>, <<53>>}}

OverflowInit ==
    \E d \in Domains :
        \E u \in UnitsOf(d) :
            \/ \E a \in {"dim", "as"} :
                   \E parts \in SingleOverflowParts(d, u) :
                       StartText(d, a, u, parts)
            \/ /\ superior(d, u) # None
               /\ \E parts \in CompoundOverflowParts(d, u, superior(d, u)) :
                      StartText(d, "dim", u, parts)

OverflowSpec == OverflowInit /\ [][ParseNext]_vars

\* n * scale(u) + f, and the superior count times its scale in a compound
TotalWritten ==
    BAdd(IF given.sup = <<>> THEN Zero
         ELSE BMul(ValueOf(given.sup), scale(dom, superior(dom, unit))),
         InferiorWritten)

\* the total with the origin offset of a relative temperature unit
TotalWithOrigin ==
    BAdd(TotalWritten, IF dom = "temperature" THEN originOffset(unit) ELSE Zero)

\* the parsers succeed exactly when the total is a safe integer, and then return it
OverflowExact(total) ==
    /\ Parsed => /\ fast # Null <=> BLe(total, MAX_SAFE_INTEGER)
                 /\ fast # Null => BLe(fast, MAX_SAFE_INTEGER)
    /\ Diagnosed => /\ diag.ok <=> BLe(total, MAX_SAFE_INTEGER)
                    /\ diag.ok => BLe(diag.value, MAX_SAFE_INTEGER)
                    /\ ~diag.ok => diag.code = "TooBig"

\* C10 (as amended): for a quantity whose digits denote whole count n and fraction
\* value f in unit u (plus a superior whole count in a compound), parsing succeeds if
\* and only if originOffset(u) + n * scale(u) + f (+ superior part) <= 2^53-1, and
\* fails with TooBig otherwise; a successful parse returns that total, in 0..2^53-1
C10_OverflowExact ==
    /\ OverflowExact(TotalWithOrigin)
    /\ Parsed /\ fast # Null => fast = TotalWithOrigin

\* C10 (as stated): parsing succeeds if and only if n * scale(u) + f (+ superior
\* part) <= 2^53-1, and fails with TooBig otherwise; every successful parse result
\* lies in 0..2^53-1
C10_AsStated == OverflowExact(TotalWritten)

\* a Celsius quantity whose total without the origin is a safe integer failed with
\* TooBig once 273.15 K were added
C10_Witness ==
    /\ Parsed /\ Diagnosed
    /\ unit = "Celsius"
    /\ BLe(TotalWritten, MAX_SAFE_INTEGER)
    /\ fast = Null /\ ~diag.ok /\ diag.code = "TooBig"

(***************************************************************************)
(* Specification ZerosSpec: a caller writes whole numbers with leading     *)
(* zeros, up to and beyond the digit count of the largest count the unit   *)
(* admits, and whole numbers with a nonzero digit beyond that count.       *)
(***************************************************************************)
\* MAX_WHOLE_DIGITS_BY_UNIT_SCALE[scale(u)]
maxWholeDigits(d, u) == maxWholeDigitsForUnitScale(scale(d, u))

\* whole numbers of a unit: 0, 7, the largest count, and 1 followed by zeros up to
\* the digit count admitted
PlainWholes(d, u) ==
    {<<48>>, <<55>>, digitsText(LargestCount(RoomOf(d, u), scale(d, u))),
     [i \in 1..maxWholeDigits(d, u) |-> IF i = 1 THEN 49 ELSE 48]}

\* numbers of zeros written before: 0..SmallCount, the digit count admitted, and 20
ZeroCounts(d, u) == (0..SmallCount) \cup {maxWholeDigits(d, u), 20}

\* the digits 1 and 90 written before a whole number filled with zeros to the
\* digit count admitted
BeyondCount(d, u, w) ==
    {pre \o [i \in 1..(maxWholeDigits(d, u) - Len(w)) |-> 48] \o w : pre \in {<<49>>, <<57, 48>>}}

ZerosParts(d, u) ==
    {[NoParts EXCEPT !.whole = [i \in 1..z |-> 48] \o w, !.plain = w] :
        w \in PlainWholes(d, u), z \in ZeroCounts(d, u)}
    \cup {[NoParts EXCEPT !.whole = b, !.plain = w] :
             w \in {<<48>>, <<55>>}, b \in BeyondCount(d, u, <<48>>) \cup BeyondCount(d, u, <<55>>)}

ZerosInit ==
    \E d \in Domains :
        \E u \in UnitsOf(d) :
            \E a \in {"dim", "as"} :
                \E parts \in ZerosParts(d, u) :
                    StartText(d, a, u, parts)

ZerosSpec == ZerosInit /\ [][ParseNext]_vars

\* a nonzero digit is written at a position beyond the digit count admitted
NonzeroBeyond ==
    \E i \in 1..(Len(given.whole) - maxWholeDigits(dom, unit)) : given.whole[i] # 48

\* only zeros are written before the plain whole number
ZerosBefore ==
    /\ Len(given.whole) >= Len(given.plain)
    /\ \A i \in 1..Len(given.whole) :
           IF i <= Len(given.whole) - Len(given.plain) THEN given.whole[i] = 48
           ELSE given.whole[i] = given.plain[i - (Len(given.whole) - Len(given.plain))]

\* C11: digit positions beyond the unit's maximum digit count (the digits of
\* floor((2^53-1)/scale)) are accepted when they are zero and rejected with TooBig
\* (null in the fast parsers) when nonzero; any number of '0' digits written before
\* a whole number leaves the result unchanged
C11_LeadingZeros ==
    /\ Parsed /\ NonzeroBeyond => fast = Null
    /\ Diagnosed /\ NonzeroBeyond => ~diag.ok /\ diag.code = "TooBig"
    /\ Parsed /\ ZerosBefore => fast = PlainFast
    /\ Diagnosed /\ ZerosBefore => SameOutcome(diag, PlainDiagnostic)

\* 7 m written after twenty zeros was parsed as 7 m by both parsers
C11_Witness ==
    /\ Parsed /\ Diagnosed
    /\ api = "dim" /\ unit = "Meter"
    /\ given.plain = <<55>> /\ Len(given.whole) = 21 /\ ZerosBefore
    /\ fast = BMul(N(7), METER)
    /\ diag.ok /\ diag.value = fast

(***************************************************************************)
(* Specification SignSpec: a caller writes temperatures with no sign, with *)
(* +, - or U+2212, at magnitudes around the origins of the relative units  *)
(* and around the largest safe integer.                                    *)
(***************************************************************************)
\* none, +, -, U+2212
Signs == {<<>>, <<43>>, <<45>>, <<8722>>}

AbsoluteUnits == {u \in TemperatureUnits : originOffset(u) = Zero}
RelativeUnits == TemperatureUnits \ AbsoluteUnits

\* 0, 32, 273, 459, the largest count of the unit and the count after it
SignedWholes(u) ==
    {<<48>>, <<51, 50>>, <<50, 55, 51>>, <<52, 53, 57>>}
        \cup {digitsText(BAdd(LargestCount(MAX_SAFE_INTEGER, scale("temperature", u)), N(j))) :
                 j \in 0..1}

\* no fraction, and .15 .16 .67 .68 where the unit holds two digits
SignedFractions(u) ==
    IF maxDecimalDigits("temperature", u) >= 2
    THEN {<<>>, <<49, 53>>, <<49, 54>>, <<54, 55>>, <<54, 56>>}
    ELSE {<<>>}

SignParts(u, a) ==
    {[NoParts EXCEPT !.sign = sg, !.whole = w, !.plain = w, !.frac = f,
                     !.tail = IF a = "dim" THEN abbr("temperature", u) ELSE <<>>] :
        sg \in Signs, w \in SignedWholes(u), f \in SignedFractions(u)}

SignInit ==
    \E u \in TemperatureUnits :
        \E a \in {"dim", "as"} :
            \E parts \in SignParts(u, a) :
                StartParts("temperature", a, u, parts)

SignSpec == SignInit /\ [][ParseNext]_vars

\* the magnitude written is one the parsers read: W * scale(u) + f <= 2^53-1
MagnitudeRead == BLe(InferiorWritten, MAX_SAFE_INTEGER)

\* a sign before an absolute unit: InvalidSign, and null from the fast parser
SignRejected ==
    /\ Parsed => fast = Null
    /\ Diagnosed => ~diag.ok /\ diag.code = "InvalidSign"

\* C12 (as amended): for every absolute unit (Smidge, Millikelvin, Kelvin,
\* ThousandthRankine, Rankine), a quantity preceded by '+', '-' or U+2212 whose
\* magnitude is at most 2^53-1 fails with InvalidSign in the diagnostic parsers
\* and returns null from the fast parsers
C12_SignRejected ==
    unit \in AbsoluteUnits /\ given.sign # <<>> /\ MagnitudeRead => SignRejected

\* C12 (as stated): ... fails with InvalidSign and returns null, whatever the magnitude
C12_AsStated == unit \in AbsoluteUnits /\ given.sign # <<>> => SignRejected

\* "−273.15K" failed with InvalidSign in parseDimDiagnostic and with null in parseDim
C12_Witness ==
    /\ Parsed /\ Diagnosed
    /\ text = <<8722, 50, 55, 51, 46, 49, 53, 75>>
    /\ fast = Null /\ ~diag.ok /\ diag.code = "InvalidSign"

\* the origin of the unit written: 273.15 K for Celsius, 459.67 °R for Fahrenheit
OriginWritten ==
    CASE unit = "Celsius" -> ZERO_CELSIUS
      [] unit = "Fahrenheit" -> ZERO_FAHRENHEIT
      [] OTHER -> Zero

Minus == given.sign \in {<<45>>, <<8722>>}

\* the outcome of a relative temperature with magnitude m and origin o: o - m or
\* TooSmall after a minus, o + m or TooBig otherwise
RelativeOutcome(o, m) ==
    IF Minus
    THEN (IF BLt(o, m) THEN err("TooSmall", 0, unit) ELSE ok(BSub(o, m)))
    ELSE (IF BLt(MAX_SAFE_INTEGER, BAdd(o, m)) THEN err("TooBig", 0, unit) ELSE ok(BAdd(o, m)))

\* the fast parser returns the value of the outcome, or null for a failure
FastOutcome(r) == IF r.ok THEN fast = r.value ELSE fast = Null

TemperatureParseDim(s) == parseDim("temperature", s, InitStripScratch, InitNumScratch("temperature")).ret

\* C13: for a relative temperature unit (Celsius, Fahrenheit) with parsed magnitude m
\* and origin o, a negative sign yields o - m, failing with TooSmall when m > o; a '+'
\* or absent sign yields o + m, failing with TooBig when o + m > 2^53-1; parseDim("0°C")
\* is parseDim("273.15K"), parseDim("32°F") is parseDim("0°C"), and no successful
\* temperature parse is negative (a difference below zero would show in the model as
\* a number above 2^53-1)
C13_RelativeOrigin ==
    /\ Parsed /\ unit \in RelativeUnits /\ MagnitudeRead
           => FastOutcome(RelativeOutcome(OriginWritten, InferiorWritten))
    /\ Diagnosed /\ unit \in RelativeUnits /\ MagnitudeRead
           => SameOutcome(diag, RelativeOutcome(OriginWritten, InferiorWritten))
    /\ Parsed /\ text = <<48, 176, 67>> => fast = TemperatureParseDim(<<50, 55, 51, 46, 49, 53, 75>>)
    /\ Parsed /\ text = <<51, 50, 176, 70>> => fast = TemperatureParseDim(<<48, 176, 67>>)
    /\ Parsed /\ fast # Null => BLe(fast, MAX_SAFE_INTEGER)
    /\ Diagnosed /\ diag.ok => BLe(diag.value, MAX_SAFE_INTEGER)

\* "-273.16°C" failed with TooSmall in parseDimDiagnostic and with null in parseDim
C13_Witness ==
    /\ Parsed /\ Diagnosed
    /\ text = <<45, 50, 55, 51, 46, 49, 54, 176, 67>>
    /\ fast = Null /\ ~diag.ok /\ diag.code = "TooSmall"

(***************************************************************************)
(* Specification FractionSpec: a caller writes 5 inches and a rational     *)
(* fraction num/den, with / or U+2044, for every denominator 0..65 and 128 *)
(* and numerators below, at and above the denominators accepted.           *)
(***************************************************************************)
Numerators == {0, 1, 2, 3, 7, 8, 15, 16, 31, 32, 63, 64, 99, 100}
Denominators == (0..65) \cup {128}

RationalParts(slash) ==
    {[NoParts EXCEPT !.whole = <<53>>, !.plain = <<53>>, !.join = <<32>>, !.num = n,
                     !.slash = slash, !.den = dn] :
        n \in Numerators, dn \in Denominators}

FractionInit ==
    \/ \E slash \in {<<47>>, <<8260>>} :
           \E parts \in RationalParts(slash) :
               StartText("length", "dim", "Inch", parts)
    \/ \E parts \in RationalParts(<<47>>) :
           StartText("length", "as", "Inch", parts)

FractionSpec == FractionInit /\ [][ParseNext]_vars

\* the outcome of W num/den inches
RationalOutcome ==
    IF given.den \notin InchDenominators THEN err("BadDenominator", 0, "Inch")
    ELSE IF given.num = 0 \/ given.num >= given.den THEN err("BadNumerator", 0, "Inch")
    ELSE ok(BAdd(BMul(ValueOf(given.whole), INCH), BMul(N(given.num), BDiv(INCH, N(given.den)))))

\* C14: for num/den (with '/' or U+2044) before an inch suffix, a denominator outside
\* {2,4,8,16,32,64} fails with BadDenominator, and with a valid denominator a
\* numerator that is 0 or >= den fails with BadNumerator (null in the fast parsers);
\* every pair with 1 <= num < den and den in the set is accepted
C14_RationalBounds ==
    /\ Parsed => FastOutcome(RationalOutcome)
    /\ Diagnosed => SameOutcome(diag, RationalOutcome)

\* "5 63⁄64"" was accepted by both parsers
C14_Witness ==
    /\ Parsed /\ Diagnosed
    /\ text = <<53, 32, 54, 51, 8260, 54, 52, 34>>
    /\ diag.ok /\ fast = diag.value
    /\ fast = BAdd(BMul(N(5), INCH), BMul(N(63), BDiv(INCH, N(64))))

(***************************************************************************)
(* The unit suffix: every recognized abbreviation after a count.           *)
(***************************************************************************)
\* the abbreviations stripUnitAt recognizes, each with the unit it names
LengthAbbreviations ==
    {[s |-> <<34>>, unit |-> "Inch"], [s |-> <<105, 110>>, unit |-> "Inch"],
     [s |-> <<8243>>, unit |-> "Inch"], [s |-> <<39>>, unit |-> "Foot"],
     [s |-> <<102, 116>>, unit |-> "Foot"], [s |-> <<8242>>, unit |-> "Foot"],
     [s |-> <<121, 100>>, unit |-> "Yard"], [s |-> <<110, 109>>, unit |-> "Nanometer"],
     [s |-> <<117, 109>>, unit |-> "Micrometer"], [s |-> <<181, 109>>, unit |-> "Micrometer"],
     [s |-> <<956, 109>>, unit |-> "Micrometer"], [s |-> <<109, 109>>, unit |-> "Millimeter"],
     [s |-> <<99, 109>>, unit |-> "Centimeter"], [s |-> <<100, 109>>, unit |-> "Decimeter"],
     [s |-> <<109>>, unit |-> "Meter"], [s |-> <<81>>, unit |-> "Q"],
     [s |-> <<112, 116>>, unit |-> "Point"], [s |-> <<112, 99>>, unit |-> "Pica"],
     [s |-> <<105, 111>>, unit |-> "Iota"]}

MassAbbreviations ==
    {[s |-> <<111, 122, 116>>, unit |-> "TroyOunce"], [s |-> <<100, 119, 116>>, unit |-> "Pennyweight"],
     [s |-> <<99, 119, 116>>, unit |-> "ShortHundredweight"],
     [s |-> <<99, 119, 116, 46, 108>>, unit |-> "LongHundredweight"],
     [s |-> <<99, 119, 116, 95, 108>>, unit |-> "LongHundredweight"],
     [s |-> <<116, 110, 46, 108>>, unit |-> "LongTon"], [s |-> <<116, 110, 95, 108>>, unit |-> "LongTon"],
     [s |-> <<108, 98>>, unit |-> "Pound"], [s |-> <<115, 116>>, unit |-> "Stone"],
     [s |-> <<116, 110>>, unit |-> "ShortTon"], [s |-> <<100, 114>>, unit |-> "Dram"],
     [s |-> <<111, 122>>, unit |-> "Ounce"], [s |-> <<103, 114>>, unit |-> "Grain"],
     [s |-> <<119, 116>>, unit |-> "Whit"], [s |-> <<107, 103>>, unit |-> "Kilogram"],
     [s |-> <<109, 103>>, unit |-> "Milligram"], [s |-> <<109, 99, 103>>, unit |-> "Microgram"],
     [s |-> <<117, 103>>, unit |-> "Microgram"], [s |-> <<181, 103>>, unit |-> "Microgram"],
     [s |-> <<956, 103>>, unit |-> "Microgram"], [s |-> <<103>>, unit |-> "Gram"],
     [s |-> <<116>>, unit |-> "Megagram"]}

TemperatureAbbreviations ==
    {[s |-> <<115, 100>>, unit |-> "Smidge"], [s |-> <<176, 67>>, unit |-> "Celsius"],
     [s |-> <<67>>, unit |-> "Celsius"], [s |-> <<176, 70>>, unit |-> "Fahrenheit"],
     [s |-> <<70>>, unit |-> "Fahrenheit"], [s |-> <<109, 75>>, unit |-> "Millikelvin"],
     [s |-> <<75>>, unit |-> "Kelvin"], [s |-> <<109, 176, 82>>, unit |-> "ThousandthRankine"],
     [s |-> <<109, 82>>, unit |-> "ThousandthRankine"], [s |-> <<176, 82>>, unit |-> "Rankine"],
     [s |-> <<82>>, unit |-> "Rankine"]}

Abbreviations(d) ==
    CASE d = "length" -> LengthAbbreviations
      [] d = "mass" -> MassAbbreviations
      [] d = "temperature" -> TemperatureAbbreviations

\* the spellings of unit u: the recognized ones and the two the formatters write
SpellingsOf(d, u) ==
    {a.s : a \in {b \in Abbreviations(d) : b.unit = u}} \cup {abbr(d, u), asciiAbbr(d, u)}

\* s ends in the abbreviation a
EndsIn(s, a) == Len(a) <= Len(s) /\ SubSeq(s, Len(s) - Len(a) + 1, Len(s)) = a

\* a is a proper tail of b
TailOf(a, b) == Len(a) < Len(b) /\ EndsIn(b, a)

\* the recognized abbreviations that end s, and the longest of them
Ending(d, s) == {a \in Abbreviations(d) : EndsIn(s, a.s)}
LongestEnding(d, s) == {a \in Ending(d, s) : \A b \in Ending(d, s) : Len(b.s) <= Len(a.s)}

\* counts written before the abbreviation: 1, 2 and 1 with a space after it
SuffixWholes == {<<49>>, <<50>>, <<49, 32>>}

SuffixInit ==
    \E d \in Domains :
        \E u \in UnitsOf(d) :
            \E sp \in SpellingsOf(d, u), w \in SuffixWholes :
                StartParts(d, "dim", u, [NoParts EXCEPT !.whole = w, !.tail = sp])

DimNext == ParseDim \/ ParseDimDiagnostic

SuffixSpec == SuffixInit /\ [][DimNext]_vars

\* the count written, counted in unit u from the origin of u
CountedIn(u) ==
    BAdd(originOffset(u), BMul(ValueOf(trimEndJotoWhitespace(given.whole)), scale(dom, u)))

\* C15: after a count, text ending in a recognized abbreviation resolves to the
\* unit of the longest recognized abbreviation that ends it (so "mm" is not "m",
\* "ozt" "st" "wt" are not "t", "kg" "mcg" are not "g", "mK" is not "K", "m°R" is
\* not "R"), and every spelling of a unit, the recognized ones and the ASCII and
\* Unicode ones the formatters write, resolves to that unit
C15_LongestSuffix ==
    /\ LongestEnding(dom, text) # {}
    /\ Parsed \/ Diagnosed => \A a \in LongestEnding(dom, text) : stripScratch.unit = a.unit
    /\ Parsed \/ Diagnosed => stripScratch.unit = unit
    /\ Parsed => fast = CountedIn(unit)
    /\ Diagnosed => diag.ok /\ diag.value = CountedIn(unit)

\* "2ozt" was read by both parsers: "t" ends it, and so does the longer "ozt"
C15_Witness ==
    /\ Parsed /\ Diagnosed
    /\ text = <<50, 111, 122, 116>>
    /\ \E a \in Ending(dom, text) : TailOf(a.s, given.tail)
    /\ diag.ok /\ diag.value = BMul(N(2), TROY_OUNCE)

(***************************************************************************)
(* Specification AsSpec: a caller names the unit and hands parseAs and     *)
(* parseAsDiagnostic a quantity preceded by other text.                    *)
(***************************************************************************)
\* texts before the quantity: none, foo, "(unrelated) ", 5ft and a space, 5lb and
\* a space
Preceding ==
    {<<>>, <<102, 111, 111>>, <<40, 117, 110, 114, 101, 108, 97, 116, 101, 100, 41, 32>>,
     <<53, 102, 116, 32>>, <<53, 108, 98, 32>>}

\* what follows the quantity: nothing, whitespace, or the suffix of the unit
Following(d, u) == {<<>>, <<160, 32>>, asciiAbbr(d, u)}

Blank(s) == trimEndJotoWhitespaceIndex(s, Len(s)) = 0

\* the quantities: nothing, 37, .5, 37.5, .0, 37.0, and in inches 1/2 and 37 1/2
AsQuantities(u) ==
    {[NoParts EXCEPT !.whole = w, !.frac = f] : w \in {<<>>, <<51, 55>>},
                                                f \in {<<>>, <<53>>, <<48>>}}
        \cup (IF u = "Inch"
              THEN {[NoParts EXCEPT !.whole = w, !.join = IF w = <<>> THEN <<>> ELSE <<32>>,
                                    !.num = 1, !.den = 2] : w \in {<<>>, <<51, 55>>}}
              ELSE {})

AsParts(d, u) ==
    {[p EXCEPT !.sup = b, !.tail = t] : p \in AsQuantities(u), b \in Preceding, t \in Following(d, u)}

AsInit ==
    \E d \in Domains :
        \E u \in UnitsOf(d) :
            \E parts \in AsParts(d, u) :
                StartParts(d, "as", u, parts)

AsNext == ParseAs \/ ParseAsDiagnostic

AsSpec == AsInit /\ [][AsNext]_vars

\* the trailing numeric quantity of the text: what is written between the text
\* before and the trailing whitespace, or nothing when the text ends in a suffix
TrailingQuantity ==
    IF Blank(given.tail) THEN TextOf([given EXCEPT !.sup = <<>>, !.tail = <<>>]) ELSE <<>>

QuantityFast == parseAs(dom, TrailingQuantity, unit, InitStripScratch, InitNumScratch(dom)).ret

QuantityDiagnostic == parseAsDiagnostic(dom, TrailingQuantity, unit, InitStripScratch).res

\* 37 of the unit, from its origin
ThirtySeven == BAdd(originOffset(unit), BMul(N(37), scale(dom, unit)))

WholeAlone == given.whole # <<>> /\ given.frac = <<>> /\ given.den = 0 /\ Blank(given.tail)

\* C16: parseAs and parseAsDiagnostic detect no unit suffix and compound nothing:
\* the result is that of the trailing numeric quantity alone, whatever the text
\* before it (parseAs("foo37", u) is 37 * scale(u), from the origin of u), and
\* text without a trailing quantity (all whitespace, or ending in a unit suffix)
\* gives null and EmptyQuantity
C16_QuantityAlone ==
    /\ Parsed => fast = QuantityFast
    /\ Diagnosed => SameOutcome(diag, QuantityDiagnostic)
    /\ Parsed /\ WholeAlone => fast = (IF BLe(ThirtySeven, MAX_SAFE_INTEGER) THEN ThirtySeven ELSE Null)
    /\ Diagnosed /\ WholeAlone =>
           IF BLe(ThirtySeven, MAX_SAFE_INTEGER) THEN diag.ok /\ diag.value = ThirtySeven
           ELSE ~diag.ok /\ diag.code = "TooBig"
    /\ Parsed /\ TrailingQuantity = <<>> => fast = Null
    /\ Diagnosed /\ TrailingQuantity = <<>> => ~diag.ok /\ diag.code = "EmptyQuantity"

(***************************************************************************)
(* Specification InchFracSpec: a caller formats inch quantities under      *)
(* every fraction style.                                                   *)
(***************************************************************************)
\* parts of an inch, in iota: 0, 1/64, 3/16, 1/2, 1/10, 1/100000, 1/64 and one iota,
\* and a single iota
InchRemainders ==
    {Zero, N(3571875), N(42862500), N(114300000), N(22860000), N(2286), N(3571876), N(1)}

InchFracFormats ==
    {[LengthDefaultFormat EXCEPT !.fracType = t, !.allowFracFallback = a,
                                 !.outputDeviceMode = m, !.maxDecimalFractionDigits = p] :
        t \in {"whole", "decimal"}, a \in BOOLEAN, m \in {"complex", "ascii"},
        p \in {NoLimit, 0, 2}}

InchFracInit ==
    \E w \in {0, 5}, rem \in InchRemainders :
        \E format \in InchFracFormats :
            Start("length", "dim", "Inch", Quantity(BAdd(BMul(N(w), INCH), rem)), format,
                  NoParts, <<>>)

InchFracSpec == InchFracInit /\ [][FormatDim]_vars

\* what is left after the whole inches, and the text of the whole inches
InchRemainder == BMod(q.mag, INCH)
InchWhole == wholeText(DivMod(q.mag, INCH), opts.thousandsSeparator)

\* the two styles: a fraction of 64ths, and a decimal fraction
RationalStyle == formatInchFrac(InchRemainder, opts.outputDeviceMode = "ascii", Len(InchWhole) > 0)
DecimalStyle ==
    formatDecimalFracForUnit(InchRemainder, formatUnitOf("length", "Inch"),
                             opts.maxDecimalFractionDigits)

PreferRational == opts.fracType = "whole"

\* the alternate style is used when allowed, the preferred one leaves a nonzero
\* remainder and the alternate leaves a strictly smaller one
UseAlternate(preferred, alternate) ==
    /\ opts.allowFracFallback
    /\ preferred.remainder # Zero
    /\ BLt(alternate.remainder, preferred.remainder)

UseRational ==
    IF PreferRational THEN ~UseAlternate(RationalStyle, DecimalStyle)
    ELSE UseAlternate(DecimalStyle, RationalStyle)

\* the text and exact flag formatDim returns when the fraction is written in style
WrittenIn(style, rational) ==
    LengthFormatChosen(q.neg, formatUnitOf("length", "Inch"), opts.outputDeviceMode = "ascii",
                       InchWhole, withWholeFrac(style, rational))

\* C17: formatDim of inches writes the fraction in the preferred style (rational
\* for fracType whole, decimal otherwise) unless allowFracFallback is set, the
\* preferred style leaves a nonzero remainder and the alternate style leaves a
\* strictly smaller one (ties keep the preferred style); exact is true iff the
\* remainder the chosen style leaves is zero
C17_InchFracStyle ==
    Formatted =>
        /\ fmt = (IF UseRational THEN WrittenIn(RationalStyle, TRUE)
                  ELSE WrittenIn(DecimalStyle, FALSE))
        /\ fmt.exact <=> (IF UseRational THEN RationalStyle ELSE DecimalStyle).remainder = Zero

\* 5 1/64 inches with decimal preferred and fallback allowed: the decimal style
\* leaves a remainder, the rational style none, and 5 1/64" is written
C17_Witness ==
    /\ Formatted
    /\ ~PreferRational /\ opts.allowFracFallback /\ opts.outputDeviceMode = "ascii"
    /\ DecimalStyle.remainder # Zero /\ RationalStyle.remainder = Zero
    /\ fmt.text = <<53, 32, 49, 47, 54, 52, 34>>
    /\ fmt.exact

(***************************************************************************)
(* Specification MixedSpec: a caller formats lengths in feet with mixed    *)
(* enabled.                                                                *)
(***************************************************************************)
\* whole feet, whole inches and parts of an inch (in iota: 0, 1 iota, 1/64, 1/2, 1/10)
MixedFeet == {0, 1, 3, 1234}
MixedInches == {0, 1, 5, 11}
MixedParts == {Zero, N(1), N(3571875), N(114300000), N(22860000)}

MixedMagnitudes ==
    {BAdd(BMul(N(f), FOOT), BAdd(BMul(N(i), INCH), r)) :
        f \in MixedFeet, i \in MixedInches, r \in MixedParts}

MixedFootFormats ==
    {[LengthDefaultFormat EXCEPT !.fracType = t, !.outputDeviceMode = m, !.thousandsSeparator = sep] :
        t \in {"whole", "decimal"}, m \in {"complex", "ascii"}, sep \in {<<>>, <<44>>}}

MixedInit ==
    \E mag \in MixedMagnitudes :
        \E neg \in IF mag = Zero THEN {FALSE} ELSE BOOLEAN, format \in MixedFootFormats :
            Start("length", "dim", "Foot", [neg |-> neg, mag |-> mag], format, NoParts, <<>>)

MixedSpec == MixedInit /\ [][FormatDim]_vars

\* whole feet, the remainder after them, the whole inches of it and what is left
WholeFeet == BDiv(q.mag, FOOT)
AfterFeet == BMod(q.mag, FOOT)
WholeInches == BDiv(AfterFeet, INCH)
AfterInches == BMod(AfterFeet, INCH)

Ascii == opts.outputDeviceMode = "ascii"
AbbrWritten(u) == IF Ascii THEN asciiAbbr("length", u) ELSE abbr("length", u)
SignWritten == IF q.neg THEN (IF Ascii THEN <<45>> ELSE <<8722>>) ELSE <<>>

\* the inch fraction written after whole inches
InchFraction ==
    chooseInchFrac(AfterInches, TRUE, opts.fracType, opts.allowFracFallback, Ascii,
                   opts.maxDecimalFractionDigits).text

\* <whole feet><foot abbreviation><whole inches><inch fraction><inch abbreviation>
FeetAndInchesText ==
    SignWritten \o formatWhole(WholeFeet, opts.thousandsSeparator) \o AbbrWritten("Foot")
        \o formatWhole(WholeInches, opts.thousandsSeparator) \o InchFraction \o AbbrWritten("Inch")

InInches == fmt = formatDim("length", q, "Inch", opts)
InFeetAndInches == fmt.text = FeetAndInchesText

\* C18 (as amended): formatDim with mixed enabled and unit Foot formats a nonzero
\* magnitude smaller than one foot directly in inches (zero is written as 0 feet);
\* when the magnitude is at least one foot and the remainder after the whole feet
\* is at least one inch, the text is <whole feet><foot abbreviation><whole inches>
\* <inch fraction> and ends in the inch abbreviation; a nonzero remainder of less
\* than one inch is written as a decimal fraction of feet, ending in the foot
\* abbreviation
C18_MixedFeet ==
    Formatted /\ opts.mixed /\ unit = "Foot" =>
        /\ q.mag # Zero /\ BLt(q.mag, FOOT) => InInches
        /\ q.mag = Zero => fmt.text = <<48>> \o AbbrWritten("Foot")
        /\ BLe(FOOT, q.mag) /\ BLe(INCH, AfterFeet) => InFeetAndInches
        /\ BLe(FOOT, q.mag) /\ BLt(AfterFeet, INCH) =>
               /\ fmt = formatDim("length", q, "Foot", [opts EXCEPT !.mixed = FALSE])
               /\ EndsIn(fmt.text, AbbrWritten("Foot"))

\* C18 as stated: every magnitude smaller than one foot is formatted in inches, and
\* every magnitude of at least one foot with a nonzero remainder after the whole
\* feet is written as feet and inches
C18_AsStated ==
    Formatted /\ opts.mixed /\ unit = "Foot" =>
        /\ BLt(q.mag, FOOT) => InInches
        /\ BLe(FOOT, q.mag) /\ AfterFeet # Zero => InFeetAndInches

\* 3 feet 5 1/2 inches is written 3'5 1/2"
C18_Witness ==
    /\ Formatted /\ opts.mixed /\ unit = "Foot" /\ ~q.neg
    /\ WholeFeet = N(3) /\ WholeInches = N(5) /\ AfterInches = N(114300000)
    /\ Ascii /\ opts.fracType = "whole"
    /\ fmt.text = <<51, 39, 53, 32, 49, 47, 50, 34>>
    /\ fmt.exact

(***************************************************************************)
(* Specification RangeSpec: a caller formats numbers on both sides of the  *)
(* safe integer range.                                                     *)
(***************************************************************************)
\* magnitudes of safe integers: 0, 1, one unit, 2^53 - 1
SafeMagnitudes(d, u) == {Zero, N(1), scale(d, u), MAX_SAFE_INTEGER}

\* magnitudes of other numbers: 2^53, 10^17, NaN, an infinity, a fraction
UnsafeMagnitudes == {BAdd(MAX_SAFE_INTEGER, N(1)), Pow10(17), NotANumber, Infinite, Fractional}

SafeQuantities(d, u) ==
    {[neg |-> n, mag |-> m] : n \in BOOLEAN, m \in SafeMagnitudes(d, u)} \ {Negative(Zero)}

UnsafeQuantities ==
    {[neg |-> n, mag |-> m] : n \in BOOLEAN, m \in UnsafeMagnitudes} \ {Negative(NotANumber)}

RangeFormats(d) ==
    {[defaultFormat(d) EXCEPT !.maxDecimalFractionDigits = p, !.thousandsSeparator = sep,
                              !.outputDeviceMode = m] :
        p \in {NoLimit, 0}, sep \in {<<>>, <<32>>}, m \in {"complex", "ascii"}}
        \cup (IF d = "length"
              THEN {[LengthDefaultFormat EXCEPT !.fracType = t, !.allowFracFallback = a,
                                                !.mixed = x] :
                        t \in {"whole", "decimal"}, a \in BOOLEAN, x \in BOOLEAN}
              ELSE {})

RangeInit ==
    \E d \in Domains :
        \E u \in UnitsOf(d) :
            \E quantity \in SafeQuantities(d, u) \cup UnsafeQuantities, format \in RangeFormats(d) :
                Start(d, "dim", u, quantity, format, NoParts, <<>>)

RangeSpec == RangeInit /\ [][FormatDim]_vars

\* C19: formatDim raises the RangeError if and only if q is not a safe integer;
\* for every safe integer q, every unit and every option value it returns a
\* {text, exact} value (a non-empty text ending in an abbreviation of a unit, and
\* a boolean), never a diagnostic error
C19_RangeFault ==
    Formatted =>
        /\ Raised(fmt) <=> q \in UnsafeQuantities
        /\ q \in SafeQuantities(dom, unit) =>
               /\ DOMAIN fmt = {"text", "exact"}
               /\ fmt.exact \in BOOLEAN
               /\ \E a \in Abbreviations(dom) : EndsIn(fmt.text, a.s) /\ Len(a.s) < Len(fmt.text)
               /\ text = fmt.text

\* formatDim(2^53, Unit.Kelvin) raised the RangeError and returned no text
C19_Witness ==
    /\ Formatted /\ dom = "temperature" /\ unit = "Kelvin"
    /\ q = Quantity(BAdd(MAX_SAFE_INTEGER, N(1)))
    /\ fmt = RangeError
    /\ text = <<>>

(***************************************************************************)
(* Specification FailureSpec: a caller hands the parsers texts that are    *)
(* blank, that lack a unit suffix or a quantity, or that fail otherwise.   *)
(***************************************************************************)
\* the closed error sets: LengthParseErrorCode, MassParseErrorCode,
\* TemperatureParseErrorCode
ErrorCodes(d) ==
    CASE d = "length" -> {"Empty", "NoUnit", "EmptyQuantity", "TooBig", "TooPrecise",
                          "BadDenominator", "BadNumerator", "InvalidCompound"}
      [] d = "mass" -> {"Empty", "NoUnit", "EmptyQuantity", "TooBig", "TooPrecise",
                        "InvalidCompound"}
      [] d = "temperature" -> {"Empty", "NoUnit", "EmptyQuantity", "TooBig", "TooSmall",
                               "TooPrecise", "InvalidSign"}

\* what is written before the suffix:
\*   nothing, 5, x, 5 x, -, ., 5., a comma, 5 and a comma, /, 1/, (, ', lb, a space
\*   .5, 5.5, 1/2, 1/3, 3/2, 5' 6, 5yd 6, 5kg 6, -5, -300
\*   99999999999999999, 1.1234567890
FailureBodies ==
    {<<>>, <<53>>, <<120>>, <<53, 32, 120>>, <<45>>, <<46>>, <<53, 46>>, <<44>>, <<53, 44>>,
     <<47>>, <<49, 47>>, <<40>>, <<39>>, <<108, 98>>, <<32>>,
     <<46, 53>>, <<53, 46, 53>>, <<49, 47, 50>>, <<49, 47, 51>>, <<51, 47, 50>>,
     <<53, 39, 32, 54>>, <<53, 121, 100, 32, 54>>, <<53, 107, 103, 32, 54>>, <<45, 53>>,
     <<45, 51, 48, 48>>,
     <<57, 57, 57, 57, 57, 57, 57, 57, 57, 57, 57, 57, 57, 57, 57, 57, 57>>,
     <<49, 46, 49, 50, 51, 52, 53, 54, 55, 56, 57, 48>>}

\* whitespace after the text: none, or a space and a no-break space
TrailingSpaces == {<<>>, <<32, 160>>}

FailureInit ==
    \E d \in Domains :
        \E body \in FailureBodies :
            \/ \E u \in UnitsOf(d), ws \in TrailingSpaces :
                   StartParts(d, "dim", u, [NoParts EXCEPT !.whole = body,
                                                            !.tail = asciiAbbr(d, u) \o ws])
            \/ \E ws \in TrailingSpaces :
                   StartParts(d, "dim", None, [NoParts EXCEPT !.whole = body, !.tail = ws])
            \/ \E u \in UnitsOf(d) :
                   StartParts(d, "as", u, [NoParts EXCEPT !.whole = body])

FailureSpec == FailureInit /\ [][ParseNext]_vars

\* the text without its trailing whitespace
Trimmed == trimEndJotoWhitespace(text)

\* what is written before the abbreviation a ending the trimmed text
BeforeEnding(a) == SubSeq(Trimmed, 1, Len(Trimmed) - Len(a.s))

NoDigit(s) == \A i \in 1..Len(s) : s[i] \notin 48..57

SafeInteger(n) == Len(n) = 5 /\ BLe(n, MAX_SAFE_INTEGER)

\* C20: every parse call returns: the fast parsers null or a safe integer, the
\* diagnostic ones a value or a failure whose code is in the error set of the
\* domain.  parseDimDiagnostic of text that is empty after trimming is Empty at
\* index 0; of trimmed text ending in no recognized suffix, NoUnit at the trimmed
\* length; of text with no digit before the suffix, EmptyQuantity
C20_ClosedFailures ==
    /\ Parsed => fast = Null \/ SafeInteger(fast)
    /\ Diagnosed =>
           /\ DOMAIN diag \in {DOMAIN ok(Zero), DOMAIN err("Empty", 0, None)}
           /\ diag.ok => SafeInteger(diag.value)
           /\ ~diag.ok => diag.code \in ErrorCodes(dom)
    /\ Diagnosed /\ api = "dim" /\ Trimmed = <<>> =>
           ~diag.ok /\ diag.code = "Empty" /\ diag.index = 0
    /\ Diagnosed /\ api = "dim" /\ Trimmed # <<>> /\ Ending(dom, Trimmed) = {} =>
           ~diag.ok /\ diag.code = "NoUnit" /\ diag.index = Len(Trimmed)
    /\ Diagnosed /\ api = "dim" =>
           \A a \in LongestEnding(dom, Trimmed) :
               NoDigit(BeforeEnding(a)) => ~diag.ok /\ diag.code = "EmptyQuantity"

\* parseDimDiagnostic of "5 x" followed by a space and a no-break space: no length
\* suffix ends the trimmed text, and the failure is NoUnit at index 3
C20_Witness ==
    /\ Diagnosed /\ api = "dim" /\ dom = "length"
    /\ text = <<53, 32, 120, 32, 160>>
    /\ Ending(dom, Trimmed) = {}
    /\ ~diag.ok /\ diag.code = "NoUnit" /\ diag.index = 3

(***************************************************************************)
(* Specification ReentrantSpec: parse calls entered while another parse    *)
(* call of the same module runs.  A call runs up to a call of a method of  *)
(* its text argument (s.charCodeAt in trimEndJotoWhitespaceIndex, s.slice  *)
(* in stripUnit); there another call may be entered, and runs before the   *)
(* first one goes on.  The scratch objects are those of the module.        *)
(***************************************************************************)
Callers == {1, 2}

\* a call of fn(s) that is not entered yet; end and unit are its local variables
Entered(fn, s) ==
    [fn |-> fn, s |-> s, pc |-> "called", end |-> 0, unit |-> None, ret |-> Null]

ReentrantUnits(d) ==
    CASE d = "length" -> {"Meter", "Foot", "Inch"}
      [] d = "mass" -> {"Kilogram", "Gram", "Ounce"}
      [] d = "temperature" -> {"Kelvin", "Celsius", "Smidge"}

\* 1 and a unit suffix, a text without a suffix, and the empty text
ReentrantTexts(d) == {<<49>> \o asciiAbbr(d, u) : u \in ReentrantUnits(d)} \cup {<<120>>, <<>>}

ReentrantInit ==
    \E d \in Domains :
        \E f1, f2 \in {"parseDim", "stripUnit"}, s1, s2 \in ReentrantTexts(d) :
            StartEntering(d, "dim", None, NoQuantity, defaultFormat(d), NoParts, <<>>,
                          [call |-> <<Entered(f1, s1), Entered(f2, s2)>>, stack |-> <<>>])

\* parseDim of length and temperature copies stripped.unit before the next call
\* of a method of s; parseDim of mass and stripUnit read it after that call
ReadsUnitAtOnce(d, fn) == fn = "parseDim" /\ d \in {"length", "temperature"}

\* the call c returned ret
Returned(c, ret) ==
    inflight' = [inflight EXCEPT !.call[c].pc = "returned", !.call[c].ret = ret,
                                 !.stack = SelectSeq(inflight.stack, LAMBDA x : x # c)]

\* the call c found a suffix; it goes on after the call of s.charCodeAt or s.slice
Suspended(c, end, u) ==
    inflight' = [inflight EXCEPT !.call[c].pc = "stripped", !.call[c].end = end,
                                 !.call[c].unit = u, !.stack = Append(inflight.stack, c)]

\* stripUnitAt returned r in the call c of fn(s), which began at end0
AfterStripUnitAt(c, fn, s, end0, r) ==
    IF (fn = "parseDim" /\ end0 = 0) \/ ~r.ret
    THEN Returned(c, Null) /\ UNCHANGED stripScratch
    ELSE /\ stripScratch' = r.out
         /\ Suspended(c, IF fn = "parseDim" THEN trimEndJotoWhitespaceIndex(s, r.out.restEnd)
                         ELSE r.out.restEnd,
                      IF ReadsUnitAtOnce(dom, fn) THEN r.out.unit ELSE None)

EnterAt(c, fn, s, end0) ==
    AfterStripUnitAt(c, fn, s, end0, stripUnitAt(dom, s, end0, stripScratch))

\* the call c is entered and runs until it has the suffix
Enter(c) ==
    /\ c \in DOMAIN inflight.call
    /\ inflight.call[c].pc = "called"
    /\ EnterAt(c, inflight.call[c].fn, inflight.call[c].s,
               IF inflight.call[c].fn = "parseDim"
               THEN trimEndJotoWhitespaceIndex(inflight.call[c].s, Len(inflight.call[c].s))
               ELSE Len(inflight.call[c].s))
    /\ UNCHANGED <<dom, api, unit, q, opts, given, text, fmt, fast, diag, numScratch, calls>>

\* parseDim goes on with the quantity r
ResumedFast(c, r) ==
    /\ Returned(c, r.ret)
    /\ stripScratch' = r.strip
    /\ numScratch' = r.num

\* the call goes on with the unit u
ResumeWith(c, call, u) ==
    IF call.fn = "stripUnit"
    THEN /\ Returned(c, [rest |-> SubSeq(call.s, 1, call.end), unit |-> u])
         /\ UNCHANGED <<stripScratch, numScratch>>
    ELSE IF call.end = 0 THEN Returned(c, Null) /\ UNCHANGED <<stripScratch, numScratch>>
    ELSE ResumedFast(c, quantityFast(unitOf(dom, u), call.s, call.end, stripScratch,
                                     numScratch, TRUE))

\* the innermost call goes on after the method of s returned, and returns
Resume(c) ==
    /\ Len(inflight.stack) > 0
    /\ inflight.stack[Len(inflight.stack)] = c
    /\ ResumeWith(c, inflight.call[c],
                  IF inflight.call[c].unit # None THEN inflight.call[c].unit
                  ELSE stripScratch.unit)
    /\ UNCHANGED <<dom, api, unit, q, opts, given, text, fmt, fast, diag, calls>>

ReentrantNext == \E c \in Callers : Enter(c) \/ Resume(c)

ReentrantSpec == ReentrantInit /\ [][ReentrantNext]_vars

\* what the call returns when it runs alone
Alone(call) ==
    IF call.fn = "parseDim"
    THEN parseDim(dom, call.s, InitStripScratch, InitNumScratch(dom)).ret
    ELSE LET r == stripUnit(dom, call.s, InitStripScratch)
         IN  IF r.found THEN [rest |-> r.rest, unit |-> r.unit] ELSE Null

JotoWhitespace == {32, 160, 65279, 8239} \cup (8192..8203)

\* runs: every single code point, and three longer runs
SingleRuns == {<<c>> : c \in JotoWhitespace}
LongerRuns == {<<32, 32>>, <<160, 8200>>, <<8203, 65279, 8239>>}

\* where a run is added: at the end of the text, between the quantity and its
\* suffix, between the whole inches and the fraction, between the count and the
\* suffix of the superior part, between the superior part and the inferior one,
\* or at all of these
Positions == {"end", "suffix", "fraction", "superior", "parts", "all"}

\* a single code point is added at all positions at once, a longer run and the
\* space also at each position alone
RunsAt(pos) == IF pos = "all" THEN SingleRuns \cup LongerRuns ELSE LongerRuns \cup {<<32>>}

At(pos, here, run) == IF pos = here \/ pos = "all" THEN run ELSE <<>>

\* the text of the parts p with run added at pos
Spaced(p, run, pos) ==
    TextOf([p EXCEPT !.tail = At(pos, "suffix", run) \o p.tail \o At(pos, "end", run),
                     !.join = IF p.join = <<>> THEN <<>> ELSE At(pos, "fraction", run) \o p.join,
                     !.supTail = IF p.sup = <<>> THEN <<>>
                                 ELSE At(pos, "superior", run) \o p.supTail,
                     !.gap = IF p.sup = <<>> THEN <<>> ELSE p.gap \o At(pos, "parts", run)])

\* 5, 5.5, .5, and in inches 5 1/2 and 1/2; each alone and, for an inferior unit,
\* after 3 of the superior unit
SpacedQuantities(d, u) ==
    LET alone ==
            ({[NoParts EXCEPT !.whole = w, !.frac = f] :
                  w \in {<<>>, <<53>>}, f \in {<<>>, <<53>>}} \ {NoParts})
            \cup (IF u = "Inch"
                  THEN {[NoParts EXCEPT !.whole = <<53>>, !.join = <<32>>, !.num = 1, !.den = 2],
                        [NoParts EXCEPT !.num = 1, !.den = 2]}
                  ELSE {})
    IN  alone \cup (IF superior(d, u) = None THEN {}
                    ELSE {[p EXCEPT !.sup = <<51>>, !.supTail = asciiAbbr(d, superior(d, u))] :
                              p \in {r \in alone : r.whole # <<>>}})

SpacedUnits(d) ==
    CASE d = "length" -> {"Inch", "Foot", "Meter"}
      [] d = "mass" -> {"Ounce", "Pound", "Kilogram"}
      [] d = "temperature" -> {"Kelvin", "Celsius"}

WhitespaceInit ==
    \E d \in Domains :
        \E u \in SpacedUnits(d), pos \in Positions :
            \E p \in SpacedQuantities(d, u), run \in RunsAt(pos) :
                \/ Start(d, "dim", u, NoQuantity, defaultFormat(d),
                         [p EXCEPT !.tail = asciiAbbr(d, u)],
                         Spaced([p EXCEPT !.tail = asciiAbbr(d, u)], run, pos))
                \/ /\ p.sup = <<>>
                   /\ Start(d, "as", u, NoQuantity, defaultFormat(d), p, Spaced(p, run, pos))

WhitespaceSpec == WhitespaceInit /\ [][ParseNext]_vars

\* the results for the text as written without the run
UnspacedFast ==
    IF api = "dim" THEN parseDim(dom, TextOf(given), InitStripScratch, InitNumScratch(dom)).ret
    ELSE parseAs(dom, TextOf(given), unit, InitStripScratch, InitNumScratch(dom)).ret

UnspacedDiagnostic ==
    IF api = "dim" THEN parseDimDiagnostic(dom, TextOf(given), InitStripScratch).res
    ELSE parseAsDiagnostic(dom, TextOf(given), unit, InitStripScratch).res

\* C22: a run of whitespace (U+0020, U+00A0, U+FEFF, U+202F, U+2000..U+200B)
\* added at the end of the text, between the quantity and its unit suffix, between
\* the whole inches and a rational fraction, or between the parts of a compound
\* does not change the result of any parser
C22_WhitespaceTransparent ==
    /\ Parsed => fast = UnspacedFast
    /\ Diagnosed => SameOutcome(diag, UnspacedDiagnostic)

\* 3'5 1/2" with U+200B U+FEFF U+202F added at every position is 3 feet 5 1/2 inches
C22_Witness ==
    /\ Parsed /\ Diagnosed /\ api = "dim" /\ unit = "Inch"
    /\ given.sup = <<51>> /\ given.whole = <<53>> /\ given.den = 2
    /\ text = Spaced(given, <<8203, 65279, 8239>>, "all")
    /\ Len(text) = Len(TextOf(given)) + 15
    /\ fast = BAdd(BMul(N(3), FOOT), BAdd(BMul(N(5), INCH), N(114300000)))
    /\ diag.ok /\ diag.value = fast

(***************************************************************************)
(* Specification OriginSpec: a caller formats temperatures of either sign, *)
(* up to the ends of the safe integer range, in every unit.                *)
(***************************************************************************)
\* 0, 1, the two origins, the largest safe integer, the one 4 below it (a multiple
\* of 9 and of 5 once an origin is added), and the one whose distance from the
\* Celsius origin is the largest safe integer
OriginMagnitudes ==
    {Zero, N(1), ZERO_FAHRENHEIT, ZERO_CELSIUS, BSub(MAX_SAFE_INTEGER, ZERO_CELSIUS),
     BSub(MAX_SAFE_INTEGER, N(4)), MAX_SAFE_INTEGER}

OriginQuantities ==
    {[neg |-> n, mag |-> m] : n \in BOOLEAN, m \in OriginMagnitudes} \ {Negative(Zero)}

OriginFormats ==
    {[PlainDefaultFormat EXCEPT !.maxDecimalFractionDigits = p] : p \in {NoLimit, 2}}

OriginInit ==
    \E u \in TemperatureUnits, quantity \in OriginQuantities, format \in OriginFormats :
        Start("temperature", "dim", u, quantity, format, NoParts, <<>>)

OriginSpec == OriginInit /\ [][FormatDim]_vars

\* C29: in temperature formatDim, for every safe integer q and every unit, the
\* magnitude |q - originOffset(unit)| is at most 2^53 - 1, so that the whole and
\* the remainder are split from an exactly represented value
C29_SafeDelta ==
    Formatted /\ ~Raised(fmt) =>
        /\ BLe(deltaMagnitude(q, originOffset(unit)), MAX_SAFE_INTEGER)
        /\ fmt = formatMagnitude(
                     IF q.neg THEN q.mag # Zero \/ originOffset(unit) # Zero
                     ELSE BLt(q.mag, originOffset(unit)),
                     deltaMagnitude(q, originOffset(unit)),
                     formatUnitOf("temperature", unit), opts)

(***************************************************************************)
(* Specification PlacesSpec: a caller formats quantities with fractions of *)
(* one digit, of all the digits of the unit, and of one digit more, under  *)
(* limits on the decimal fraction digits.                                  *)
(***************************************************************************)
\* maxDecimalFractionDigits: none, and limits below, among and above the digit
\* counts of the units
PlaceLimits == {NoLimit, 0, 1, 3, 20}

\* fractions of a unit in least significant digit values: none, the last digit
\* alone, the first digit alone, all the digits
PlaceCounts(digits) ==
    IF digits = 0 THEN {Zero} ELSE {Zero, N(1), Pow10(digits - 1), Staircase(digits)}

\* w units and k least significant digit values, and the integer after them
PlaceMagnitudes(unitScale, lsd, digits) ==
    {BAdd(BAdd(BMul(N(w), unitScale), BMul(k, lsd)), N(c)) :
        w \in {0, 1}, k \in PlaceCounts(digits), c \in {0, 1}}

\* (in length also 1/64 in, which no decimal fraction of an inch writes exactly)
\* temperatures below zero whose distance from an origin is not a safe integer
LowestTemperatures == {Negative(BSub(MAX_SAFE_INTEGER, N(4))), Negative(BSub(MAX_SAFE_INTEGER, N(30)))}

PlaceQuantities(d, u) ==
    {Quantity(mag) : mag \in PlaceMagnitudes(scale(d, u), leastSignificantDigitValue(d, u),
                                             maxDecimalDigits(d, u))}
        \cup (IF d = "temperature" THEN LowestTemperatures ELSE {})
        \cup (IF d = "length" THEN {Quantity(BDiv(INCH, N(64)))} ELSE {})

PlaceFormats(d) ==
    {[defaultFormat(d) EXCEPT !.maxDecimalFractionDigits = m] : m \in PlaceLimits}
        \cup (IF d = "length"
              THEN {[LengthDefaultFormat EXCEPT !.maxDecimalFractionDigits = m,
                        !.fracType = "decimal", !.allowFracFallback = FALSE, !.mixed = FALSE] :
                        m \in PlaceLimits}
              ELSE {})

PlacesInit ==
    \E d \in Domains :
        \E u \in UnitsOf(d) :
            \E quantity \in PlaceQuantities(d, u), format \in PlaceFormats(d) :
                Start(d, "dim", u, quantity, format, NoParts, <<>>)

PlacesSpec == PlacesInit /\ [][FormatDim]_vars

\* the text before the abbreviation of the unit
WrittenBody == SubSeq(fmt.text, 1, Len(fmt.text) - Len(abbr(dom, unit)))

\* the number of code units after the decimal point of the text
FractionDigitsWritten ==
    LET dots == {i \in 1..Len(WrittenBody) : WrittenBody[i] = 46}
    IN  IF dots = {} THEN 0
        ELSE Len(WrittenBody) - CHOOSE i \in dots : \A j \in dots : j <= i

\* min(maxDecimalDigits(unit), maxDecimalFractionDigits)
PlacesAllowed ==
    IF opts.maxDecimalFractionDigits = NoLimit THEN maxDecimalDigits(dom, unit)
    ELSE Min2(maxDecimalDigits(dom, unit), opts.maxDecimalFractionDigits)

\* the magnitude formatDim is to write: |q|, in temperature |q - originOffset(unit)|
MagnitudeToWrite ==
    IF dom = "temperature" THEN deltaMagnitude(q, originOffset(unit)) ELSE q.mag

\* the magnitude is a whole number of units and a fraction of that many digits
Representable(places) ==
    BMod(MagnitudeToWrite,
         BMul(leastSignificantDigitValue(dom, unit),
              Pow10(maxDecimalDigits(dom, unit) - places))) = Zero

\* the fraction is written as a decimal fraction of the unit asked for: always in
\* mass and temperature, in length when neither an inch fraction nor feet and
\* inches may be written
DecimalOfUnit ==
    dom = "length" => opts.fracType = "decimal" /\ ~opts.allowFracFallback /\ ~opts.mixed

\* C23: the text of formatDim has at most min(maxDecimalDigits(unit),
\* maxDecimalFractionDigits) decimal fraction digits; when the magnitude is not a
\* whole number of units and a fraction of that many digits, exact is false; and
\* with no limit every multiple of the least significant digit value of the unit
\* is formatted with exact = true
C23_DecimalPlaces ==
    Formatted /\ DecimalOfUnit =>
        /\ FractionDigitsWritten <= PlacesAllowed
        /\ ~Representable(PlacesAllowed) => ~fmt.exact
        /\ opts.maxDecimalFractionDigits = NoLimit /\ Representable(maxDecimalDigits(dom, unit))
               => fmt.exact

(***************************************************************************)
(* Specification NestSpec: a caller hands parseDim and parseDimDiagnostic  *)
(* a quantity, compound or not, written after another quantity, a number   *)
(* or a compound.                                                          *)
(***************************************************************************)
\* the units whose quantities are written to the left
LeftUnits(d) ==
    CASE d = "length" -> {"Foot", "Inch", "Yard", "Meter"}
      [] d = "mass" -> {"Pound", "Ounce", "Stone", "Kilogram"}
      [] d = "temperature" -> {"Kelvin", "Celsius"}

\* to the left: nothing; 2 of a unit, with and without a space after it; the
\* numbers 7 and 6.5; 2 of the superior unit and 1 of the inferior one
Lefts(d) ==
    {<<>>, <<55, 32>>, <<54, 46, 53, 32>>}
        \cup {<<50>> \o asciiAbbr(d, v) \o g : v \in LeftUnits(d), g \in {<<>>, <<32>>}}
        \cup (CASE d = "length" -> {<<50, 39, 32, 49, 34, 32>>}
                [] d = "mass" -> {<<50, 108, 98, 32, 49, 111, 122, 32>>}
                [] OTHER -> {})

\* to the left of a superior whole number also a number that ends in a decimal
\* point, as in 6.3'5"
LeftsOfCompound(d) == Lefts(d) \cup {<<54, 46>>}

\* 2, 2.5 (where the unit has decimal digits) and (inches) 2 1/2
NestedQuantities(d, u) ==
    {[NoParts EXCEPT !.whole = <<50>>, !.plain = <<50>>, !.frac = f] :
        f \in IF maxDecimalDigits(d, u) > 0 THEN {<<>>, <<53>>} ELSE {<<>>}}
        \cup (IF u = "Inch"
              THEN {[NoParts EXCEPT !.whole = <<50>>, !.plain = <<50>>, !.join = <<32>>,
                                    !.num = 1, !.den = 2]}
              ELSE {})

\* 3 of the superior unit before the quantity
NestedCompounds(d, u) ==
    {[p EXCEPT !.sup = <<51>>, !.supPlain = <<51>>, !.supTail = t, !.gap = g,
               !.tail = asciiAbbr(d, u)] :
        p \in NestedQuantities(d, u),
        t \in {abbr(d, superior(d, u)), asciiAbbr(d, superior(d, u))},
        g \in {<<>>, <<32>>}}

\* the quantity alone, in a unit without a superior
NestedSingles(d, u) ==
    {[p EXCEPT !.tail = t] : p \in NestedQuantities(d, u), t \in {abbr(d, u), asciiAbbr(d, u)}}

\* the caller hands over left and, after it, the text of the parts
StartAfter(d, u, left, parts) ==
    Start(d, "dim", u, NoQuantity, defaultFormat(d), parts, left \o TextOf(parts))

NestInit ==
    \E d \in Domains :
        \E u \in UnitsOf(d) :
            IF superior(d, u) # None
            THEN \E parts \in NestedCompounds(d, u), left \in LeftsOfCompound(d) :
                     StartAfter(d, u, left, parts)
            ELSE \E parts \in NestedSingles(d, u), left \in Lefts(d) :
                     StartAfter(d, u, left, parts)

NestSpec == NestInit /\ [][DimNext]_vars

\* the value of the parts alone: the superior whole number and the quantity, or
\* the quantity (from the origin of its unit)
NestedWritten ==
    IF given.sup # <<>> THEN CompoundWritten ELSE BAdd(originOffset(unit), InferiorWritten)

\* something was written to the left of the parts
WrittenAfter == Len(text) > Len(TextOf(given))

\* C24: compound parsing nests at most one level: once the superior whole number
\* (feet, pounds) is parsed, no unit suffix or number further left contributes to
\* the result, and a quantity whose own unit is Foot or Pound, or any unit without
\* a superior, is never combined with a unit before it
C24_OneLevel ==
    /\ Parsed => fast = NestedWritten
    /\ Diagnosed => diag.ok /\ diag.value = NestedWritten

\* 2yd 3'2 1/2" is 3 feet and 2 1/2 inches for both parsers
C24_Witness ==
    /\ Parsed /\ Diagnosed /\ WrittenAfter
    /\ text = <<50, 121, 100, 32, 51, 39, 50, 32, 49, 47, 50, 34>>
    /\ fast = BAdd(BAdd(BMul(N(3), FOOT), BMul(N(2), INCH)), BDiv(INCH, N(2)))
    /\ diag.ok /\ diag.value = fast

(***************************************************************************)
(* Specification PointSpec: a caller hands the parsers a quantity that     *)
(* ends in a decimal point: after a whole number, or after no digit.       *)
(***************************************************************************)
\* 0, 2 and 02
PointWholes == {<<48>>, <<50>>, <<48, 50>>}

\* before a point that follows no digit: nothing, x, a space, 2 and a space
PointLefts == {<<>>, <<120>>, <<32>>, <<50, 32>>}

\* between the point and the suffix: nothing, a space
PointGaps == {<<>>, <<32>>}

\* a whole number and a point, or a text without final digit and a point; sup holds
\* the text before the point when no whole number is written
PointParts ==
    {[NoParts EXCEPT !.whole = w, !.plain = w, !.tail = g] : w \in PointWholes, g \in PointGaps}
        \cup {[NoParts EXCEPT !.sup = b, !.tail = g] : b \in PointLefts, g \in PointGaps}

\* the text of the parts: the point is written after the whole number
PointText(p) == p.sup \o p.whole \o <<46>> \o p.tail

PointInit ==
    \E d \in Domains :
        \E u \in UnitsOf(d), p \in PointParts :
            \/ Start(d, "dim", u, NoQuantity, defaultFormat(d),
                     [p EXCEPT !.tail = p.tail \o asciiAbbr(d, u)],
                     PointText([p EXCEPT !.tail = p.tail \o asciiAbbr(d, u)]))
            \/ Start(d, "as", u, NoQuantity, defaultFormat(d), p, PointText(p))

PointSpec == PointInit /\ [][ParseNext]_vars

\* the whole number written, in the unit, from its origin
PointWritten == BAdd(originOffset(unit), BMul(ValueOf(given.whole), scale(dom, unit)))

\* C25: for every unit of every domain a quantity <digits>'.' without fraction
\* digits is accepted and is the whole number with a zero fraction, and a '.' not
\* preceded by a digit fails with EmptyQuantity
C25_TrailingPoint ==
    IF given.whole # <<>>
    THEN /\ Parsed => fast = PointWritten
         /\ Diagnosed => diag.ok /\ diag.value = PointWritten
    ELSE /\ Parsed => fast = Null
         /\ Diagnosed => ~diag.ok /\ diag.code = "EmptyQuantity"

(***************************************************************************)
(* Specification HistorySpec: a caller makes parse calls one after the     *)
(* other, each run to its end before the next is entered, on one text      *)
(* after another, over the scratch objects the calls before left behind.   *)
(***************************************************************************)
HistoryUnits(d) ==
    CASE d = "length" -> {"Meter", "Inch"}
      [] d = "mass" -> {"Kilogram", "Ounce"}
      [] d = "temperature" -> {"Kelvin", "Celsius"}

\* quantities: 1, .5, 2 of the superior unit and 1, no digit, nothing at all
HistoryBodies(d, u) ==
    {<<49>>, <<46, 53>>, <<120>>, <<>>}
        \cup (IF superior(d, u) # None
              THEN {<<50>> \o asciiAbbr(d, superior(d, u)) \o <<49>>}
              ELSE {})

\* the arguments of a round of calls: parseDim and parseDimDiagnostic of a text,
\* or parseAs and parseAsDiagnostic of a text and a unit; and the text of stripUnit
HistoryArgumentsOf(d, u) ==
    {[api |-> "dim", unit |-> u, text |-> b \o t, strip |-> t] :
        b \in HistoryBodies(d, u), t \in {<<>>, asciiAbbr(d, u)}}
    \cup {[api |-> "as", unit |-> u, text |-> b, strip |-> <<49>> \o asciiAbbr(d, u)] :
              b \in HistoryBodies(d, u)}

HistoryArguments(d) == UNION {HistoryArgumentsOf(d, u) : u \in HistoryUnits(d)}

HistoryInit ==
    \E d \in Domains :
        \E a \in HistoryArguments(d) :
            StartEntering(d, a.api, a.unit, NoQuantity, defaultFormat(d), NoParts, a.text,
                          [call |-> <<Entered("stripUnit", a.strip)>>, stack |-> <<>>])

\* the caller drops the results and makes the calls again, with other arguments
CallAgainWith(a) ==
    /\ api' = a.api
    /\ unit' = a.unit
    /\ text' = a.text
    /\ inflight' = [call |-> <<Entered("stripUnit", a.strip)>>, stack |-> <<>>]

CallAgain ==
    /\ calls # {} \/ inflight.call[1].pc = "returned"
    /\ \E a \in HistoryArguments(dom) : CallAgainWith(a)
    /\ calls' = {}
    /\ fast' = Null
    /\ diag' = err("Empty", 0, None)
    /\ UNCHANGED <<dom, q, opts, given, fmt, stripScratch, numScratch>>

\* no call is entered before the one that runs has returned
HistoryNext ==
    \/ inflight.stack = <<>> /\ (ParseNext \/ CallAgain \/ Enter(1))
    \/ Resume(1)

HistorySpec == HistoryInit /\ [][HistoryNext]_vars

\* what the fast and the diagnostic parser return for the text when they are the
\* first call made
FirstFast ==
    IF api = "dim" THEN parseDim(dom, text, InitStripScratch, InitNumScratch(dom)).ret
    ELSE parseAs(dom, text, unit, InitStripScratch, InitNumScratch(dom)).ret

FirstDiagnostic ==
    IF api = "dim" THEN parseDimDiagnostic(dom, text, InitStripScratch).res
    ELSE parseAsDiagnostic(dom, text, unit, InitStripScratch).res

\* C26: in any sequence of calls of parseDim, parseAs, stripUnit and the diagnostic
\* parsers of one domain, none entered while another runs, each call returns what
\* its arguments alone determine: what it returns as the first call made, whatever
\* the calls before it left in _stripScratch and _numScratch
C26_HistoryIndependent ==
    /\ Parsed => fast = FirstFast
    /\ Diagnosed => diag = FirstDiagnostic
    /\ inflight.call[1].pc = "returned" =>
           inflight.call[1].ret = Alone(inflight.call[1])

\* after other calls left Kilogram and a value in the scratch objects, parseDim("x")
\* returned null and parseDimDiagnostic("x") NoUnit
C26_Witness ==
    /\ dom = "mass" /\ api = "dim" /\ text = <<120>>
    /\ Parsed /\ Diagnosed
    /\ stripScratch.unit = "Kilogram" /\ numScratch.value = KILOGRAM
    /\ fast = Null
    /\ ~diag.ok /\ diag.code = "NoUnit"

(***************************************************************************)
(* Specification TableSpec: a caller formats one least significant digit   *)
(* value and one unit of every unit, as decimal fractions, and parses the  *)
(* text.                                                                   *)
(***************************************************************************)
\* decimal fractions of the unit asked for only
DecimalFormat(d) ==
    IF d = "length"
    THEN [LengthDefaultFormat EXCEPT !.fracType = "decimal", !.allowFracFallback = FALSE,
                                     !.mixed = FALSE]
    ELSE PlainDefaultFormat

TableInit ==
    \E d \in Domains :
        \E u \in UnitsOf(d) :
            \E m \in {leastSignificantDigitValue(d, u), scale(d, u)} :
                Start(d, "dim", u, Quantity(BAdd(originOffset(u), m)), DecimalFormat(d),
                      NoParts, <<>>)

TableSpec == TableInit /\ [][RoundTripNext]_vars

\* the unit every constant of the domain is a multiple of
BaseUnit(d) ==
    CASE d = "length" -> "Iota"
      [] d = "mass" -> "Whit"
      [] d = "temperature" -> "Smidge"

\* one least significant digit value of the unit is being formatted
LastDigitAlone == q.mag = BAdd(originOffset(unit), leastSignificantDigitValue(dom, unit))

\* C27: for every unit u of every domain leastSignificantDigitValue(u) *
\* 10^maxDecimalDigits(u) is scale(u) and leastSignificantDigitValue(u) is no
\* multiple of 10, so that maxDecimalDigits(u) is the largest exact digit count (one
\* least significant digit value is written with that many fraction digits, exactly);
\* the tables of the parse and of the format modules agree; every scale is positive
\* and the scale of the base unit is 1
C27_UnitTables ==
    /\ BMul(leastSignificantDigitValue(dom, unit), Pow10(maxDecimalDigits(dom, unit)))
           = scale(dom, unit)
    /\ BMod(leastSignificantDigitValue(dom, unit), N(10)) # Zero
    /\ formatMaxDecimalDigits(dom, unit) = maxDecimalDigits(dom, unit)
    /\ formatUnitOf(dom, unit).leastSignificantDigitValue
           = unitOf(dom, unit).leastSignificantDigitValue
    /\ BLt(Zero, scale(dom, unit))
    /\ scale(dom, BaseUnit(dom)) = N(1)
    /\ Formatted /\ LastDigitAlone =>
           fmt.exact /\ FractionDigitsWritten = maxDecimalDigits(dom, unit)
    /\ Formatted /\ Parsed => fast = q.mag

\* one least significant digit value of the troy ounce was written 0.1 ozt and
\* parsed back
C27_Witness ==
    /\ Formatted /\ Parsed /\ LastDigitAlone
    /\ unit = "TroyOunce"
    /\ BMul(q.mag, N(10)) = TROY_OUNCE
    /\ SubSeq(text, 1, 3) = <<48, 46, 49>>
    /\ fast = q.mag

(***************************************************************************)
(* Specification SixtyFourthsSpec: a caller formats every number of 64ths  *)
(* of an inch, alone, after whole inches and after feet and inches, in     *)
(* inches and in feet with mixed enabled, and parses the text.             *)
(***************************************************************************)
\* whole inches before the fraction: none, 5 inches, 3 feet 5 inches
InchesBefore == {Zero, BMul(N(5), INCH), BAdd(BMul(N(3), FOOT), BMul(N(5), INCH))}

\* n/64 in, n in 0..63
SixtyFourthsOfInch == {BMul(N(n), BDiv(INCH, N(64))) : n \in 0..63}

SixtyFourthsMagnitudes == {BAdd(w, r) : w \in InchesBefore, r \in SixtyFourthsOfInch}

\* inch fractions preferred, or decimal fractions with inch fractions as fallback
SixtyFourthsFormats(u) ==
    {[LengthDefaultFormat EXCEPT !.fracType = t, !.outputDeviceMode = m, !.mixed = (u = "Foot")] :
        t \in {"whole", "decimal"}, m \in {"complex", "ascii"}}

SixtyFourthsInit ==
    \E u \in {"Inch", "Foot"}, mag \in SixtyFourthsMagnitudes :
        \E format \in SixtyFourthsFormats(u) :
            Start("length", "dim", u, Quantity(mag), format, NoParts, <<>>)

SixtyFourthsSpec == SixtyFourthsInit /\ [][RoundTripNext]_vars

\* where the slash of the text is (0: the text holds no inch fraction)
SlashAt ==
    LET slashes == {i \in 1..Len(fmt.text) : fmt.text[i] \in {47, 8260}}
    IN  IF slashes = {} THEN 0 ELSE CHOOSE i \in slashes : TRUE

\* where the digits before the slash begin
NumeratorAt == digitsStartIndex(fmt.text, SlashAt - 1) + 1

\* the numerator and the denominator written, as numbers
NumeratorWritten == ValueOf(SubSeq(fmt.text, NumeratorAt, SlashAt - 1))
DenominatorWritten == ValueOf(SubSeq(fmt.text, SlashAt + 1, Len(fmt.text) - 1))

\* a separator and, before it, a digit of the whole inches precede the numerator
SeparatorBefore ==
    /\ NumeratorAt > 2
    /\ fmt.text[NumeratorAt - 1] = (IF Ascii THEN 32 ELSE 65279)
    /\ isAsciiDigitCharCode(fmt.text[NumeratorAt - 2])

\* C28: when length formatDim writes an inch fraction num/den, den is one of 2, 4,
\* 8, 16, 32, 64, num is odd and 1 <= num < den, num * (INCH / den) is the remainder
\* being formatted, a separator (a space in ASCII mode, U+FEFF otherwise) precedes
\* the fraction exactly when whole inches are written, and parseDim accepts the text
C28_InchFractionWritten ==
    Formatted /\ SlashAt # 0 =>
        /\ \E den \in InchDenominators : DenominatorWritten = N(den)
        /\ BMod(NumeratorWritten, N(2)) = N(1)
        /\ BLe(N(1), NumeratorWritten) /\ BLt(NumeratorWritten, DenominatorWritten)
        /\ BMul(NumeratorWritten, BDiv(INCH, DenominatorWritten)) = InchRemainder
        /\ fmt.text[Len(fmt.text)] = AbbrWritten("Inch")[1]
        /\ IF BLe(INCH, q.mag) THEN SeparatorBefore ELSE NumeratorAt = 1
        /\ Parsed => fast = q.mag

\* 3 feet 5 63/64 inches is written 3 U+2032 5 U+FEFF 63 U+2044 64 U+2033 and
\* parsed back
C28_Witness ==
    /\ Formatted /\ Parsed
    /\ unit = "Foot" /\ ~Ascii
    /\ fmt.text = <<51, 8242, 53, 65279, 54, 51, 8260, 54, 52, 8243>>
    /\ NumeratorWritten = N(63) /\ DenominatorWritten = N(64)
    /\ fast = q.mag

(***************************************************************************)
(* Specification FractionAloneSpec: a caller hands the parsers a fraction  *)
(* without whole number, at the start of the text or after text that does  *)
(* not end in a digit.                                                     *)
(***************************************************************************)
\* before the fraction: nothing, x, 2x and a space
FractionLefts == {<<>>, <<120>>, <<50, 120, 32>>}

\* .5 where the unit has decimal digits, .0 and .00, and in inches 1/2
LoneFractions(d, u) ==
    {[NoParts EXCEPT !.frac = f] :
        f \in {<<48>>, <<48, 48>>} \cup (IF maxDecimalDigits(d, u) > 0 THEN {<<53>>} ELSE {})}
        \cup (IF u = "Inch" THEN {[NoParts EXCEPT !.num = 1, !.den = 2]} ELSE {})

FractionAloneInit ==
    \E d \in Domains :
        \E u \in UnitsOf(d), a \in {"dim", "as"} :
            \E p \in LoneFractions(d, u), b \in FractionLefts :
                StartText(d, a, u, [p EXCEPT !.sup = b])

FractionAloneSpec == FractionAloneInit /\ [][ParseNext]_vars

\* the fraction written, in the unit, from its origin
FractionAlone == BAdd(originOffset(unit), FractionWritten)

\* C30: when the text before a decimal or rational fraction does not end in a
\* digit, in length and mass a nonzero fraction alone is the result, a zero
\* fraction after other text fails with EmptyQuantity and a zero fraction with
\* nothing before it gives 0; in temperature the fraction is the result in the
\* three cases
C30_FractionAlone ==
    IF dom = "temperature" \/ FractionWritten # Zero \/ given.sup = <<>>
    THEN /\ Parsed => fast = FractionAlone
         /\ Diagnosed => diag.ok /\ diag.value = FractionAlone
    ELSE /\ Parsed => fast = Null
         /\ Diagnosed => ~diag.ok /\ diag.code = "EmptyQuantity"
=============================================================================
